---- MODULE Spec2Model ----
(***************************************************************************)
(* Verification model of schismrs bctides: the constituent selection       *)
(* (tides.rs), the boundary-type codes (bctypes.rs), the boundary forcing  *)
(* aggregation and serializer (bctides.rs) and the linear part of the      *)
(* tidal factor engine (tidefac.rs).                                       *)
(*                                                                         *)
(* Constituent names are sequences of one-character strings, so that the   *)
(* digit test of set_by_name and strip_prefix('_') are computed on the     *)
(* characters and not looked up.                                           *)
(***************************************************************************)
EXTENDS Integers, Sequences, FiniteSets, TLC

VARIABLES
    cc,          \* tides.rs: the ConstituentsConfig under construction (field name -> bool)
    cc_op,       \* tides.rs: the last ConstituentsConfig operation that acted
    cc_apc,      \* result of get_active_potential_constituents on cc (None until queried)
    cc_afc,      \* result of get_active_forcing_constituents on cc (None until queried)
    hgrid,       \* bctides.rs: the mesh's open boundary segments, as their node counts
                 \* (None for a mesh without open boundaries)
    elevation,   \* bctides.rs: Option<BTreeMap<u32, ElevationConfig>>
    velocity,    \* bctides.rs: Option<BTreeMap<u32, VelocityConfig>>
    temperature, \* bctides.rs: Option<BTreeMap<u32, TemperatureConfig>>
    salinity,    \* bctides.rs: Option<BTreeMap<u32, SalinityConfig>>
    pc,          \* bctides.rs: "config" while the mappings are filled, then "rendered",
                 \* "rendered_again" after a second rendering, "panicked" after a panic
    apc_set,     \* bctides.rs: fmt's local apc_set (None until rendered)
    afc_set,     \* bctides.rs: fmt's local afc_set (None until rendered)
    out,         \* bctides.rs: the lines Display::fmt wrote
    tf,          \* tidefac.rs: the Tidefac value (start_date, run_duration, constituent)
    tf_gw,       \* tidefac.rs: the result of greenwich_factor() (None until called)
    tf_out,      \* tidefac.rs: the last other Tidefac method called and what it returned
    panic,       \* the message of the panic that ended the run (None while it runs)
    cli,         \* main.rs: the command line as written: the boundary arguments in
                 \* their order and the value of --run-duration
    debug_assertions, \* the build of the binary: TRUE with debug assertions (the dev
                 \* profile), FALSE without them (the release profile)
    matches,     \* main.rs: the clap ArgMatches of the command line (argument id -> value),
                 \* empty until the command line is parsed
    cli_error,   \* main.rs: the kind of the clap error that rejected the command line
    builder,     \* bctides.rs: the BctidesBuilder (four Option fields)
    built,       \* bctides.rs: what the last call, if it was build(), returned
    sz,          \* sz.rs: the SZBuilder (Option fields)
    sz_out,      \* sz.rs: what the last call, if it was build(), returned
    inventory,   \* _nhc.rs: the rows of the NHC storm inventory
    nhc_out      \* storm_event.rs, _nhc.rs: the last lookup and what it returned

ccvars == <<cc, cc_op, cc_apc, cc_afc>>
bcvars == <<hgrid, elevation, velocity, temperature, salinity, pc, apc_set, afc_set, out>>
tfvars == <<tf, tf_gw, tf_out>>
clivars == <<cli, debug_assertions, matches, cli_error>>
bbvars == <<builder, built>>
szvars == <<sz, sz_out>>
nhcvars == <<inventory, nhc_out>>
restvars == <<clivars, bbvars, szvars, nhcvars>>
vars == <<ccvars, bcvars, tfvars, panic, restvars>>

\* Option<T>: None is the empty tuple, Some(x) the one-element tuple.
None == <<>>
Some(x) == <<x>>
IsSome(o) == Len(o) = 1
Unwrap(o) == o[1]

\* a panic message: the words of its format string and the values of its {}
PanicMessage(text, args) == [text |-> text, args |-> args]

Range(s) == {s[i] : i \in 1..Len(s)}
Min(S) == CHOOSE x \in S : \A y \in S : x <= y
NoDup(s) == \A i, j \in 1..Len(s) : i # j => s[i] # s[j]

-----------------------------------------------------------------------------
(* tides.rs *)

MAJOR_CONSTITUENTS ==
    << <<"Q","1">>, <<"O","1">>, <<"P","1">>, <<"K","1">>,
       <<"N","2">>, <<"M","2">>, <<"S","2">>, <<"K","2">> >>

\* faulty variant: the minor list misses S1
MINOR_CONSTITUENTS_without_S1 ==
    << <<"M","m">>, <<"M","f">>, <<"M","4">>, <<"M","N","4">>,
       <<"M","S","4">>, <<"2","N","2">> >>

MINOR_CONSTITUENTS ==
    << <<"M","m">>, <<"M","f">>, <<"M","4">>, <<"M","N","4">>,
       <<"M","S","4">>, <<"2","N","2">>, <<"S","1">> >>

\* define_constituents_config! { Q1, O1, ..., _2N2, S1 }: stringify!($name) per field
field_names ==
    << <<"Q","1">>, <<"O","1">>, <<"P","1">>, <<"K","1">>,
       <<"N","2">>, <<"M","2">>, <<"S","2">>, <<"K","2">>,
       <<"M","m">>, <<"M","f">>, <<"M","4">>, <<"M","N","4">>,
       <<"M","S","4">>, <<"_","2","N","2">>, <<"S","1">> >>

\* #[derive(Default)]: every bool field false
ConstituentsConfig_default == [f \in Range(field_names) |-> FALSE]

values(cfg) == [i \in 1..Len(field_names) |-> cfg[field_names[i]]]

\* char::is_digit(10)
is_digit(c) == c \in {"0","1","2","3","4","5","6","7","8","9"}

\* faulty variant: set_by_name without the digit-leading remap
adjusted_field_name_no_remap(field_name) == field_name

\* set_by_name: the digit-leading remap of the field name
adjusted_field_name(field_name) ==
    IF Len(field_name) > 0 /\ is_digit(field_name[1])
    THEN <<"_">> \o field_name
    ELSE field_name

\* set_by_name reaches the `_ => panic!` arm
set_by_name_panics(field_name) ==
    adjusted_field_name(field_name) \notin Range(field_names)

\* panic!("Field name does not exist in ConstituentsConfig")
set_by_name_panic_message(field_name) ==
    PanicMessage(<<"Field", "name", "does", "not", "exist", "in",
                   "ConstituentsConfig">>, <<>>)

\* faulty variant: the other fields fall back to their defaults
set_by_name_resetting(cfg, field_name, value) ==
    IF set_by_name_panics(field_name)
    THEN cfg
    ELSE [ConstituentsConfig_default EXCEPT ![adjusted_field_name(field_name)] = value]

\* set_by_name on a known name: assigns that one field
set_by_name(cfg, field_name, value) ==
    IF set_by_name_panics(field_name)
    THEN cfg
    ELSE [cfg EXCEPT ![adjusted_field_name(field_name)] = value]

\* a `for` loop that updates one local: turn(acc, i) for i = lo, .., hi in
\* this order, starting from acc; the turns are taken half by half, the
\* local bound between the halves
RECURSIVE Loop(_, _, _, _)
Loop(turn_(_, _), acc, lo, hi) ==
    IF lo > hi THEN acc
    ELSE IF lo = hi THEN turn_(acc, lo)
    ELSE CHOOSE end \in
            {Loop(turn_, mid, ((lo + hi) \div 2) + 1, hi) :
                mid \in {Loop(turn_, acc, lo, (lo + hi) \div 2)}} : TRUE

\* `for cnst in LIST.iter() { this.set_by_name(cnst, true) }`
set_all_by_name(cfg, names, i) ==
    Loop(LAMBDA this, j : set_by_name(this, names[j], TRUE), cfg, i, Len(names))

ConstituentsConfig_all ==
    set_all_by_name(
        set_all_by_name(ConstituentsConfig_default, MAJOR_CONSTITUENTS, 1),
        MINOR_CONSTITUENTS, 1)

ConstituentsConfig_major ==
    set_all_by_name(ConstituentsConfig_default, MAJOR_CONSTITUENTS, 1)

ConstituentsConfig_minor ==
    set_all_by_name(ConstituentsConfig_default, MINOR_CONSTITUENTS, 1)

\* LinkedHashSet as the sequence of its members in iteration order.
\* LinkedHashSet::insert: the value ends at the back, present before or not.
lhs_insert(set, x) ==
    SelectSeq(set, LAMBDA y : y # x) \o <<x>>

\* faulty variant: insert_if_absent written as insert, which moves a present value back
lhs_insert_if_absent_as_insert(set, x) ==
    SelectSeq(set, LAMBDA y : y # x) \o <<x>>

\* LinkedHashSet::insert_if_absent: a present value keeps its place.
lhs_insert_if_absent(set, x) ==
    IF x \in Range(set) THEN set ELSE set \o <<x>>

\* faulty variant: the major test misses K2
is_major_without_K2(field_name) ==
    field_name \in Range(MAJOR_CONSTITUENTS) \ {<<"K","2">>}

\* MAJOR_CONSTITUENTS.contains(&field_name)
is_major(field_name) == field_name \in Range(MAJOR_CONSTITUENTS)

apc_loop(cfg, i, apc) ==
    Loop(LAMBDA set, j : IF values(cfg)[j] = TRUE /\ is_major(field_names[j])
                         THEN lhs_insert(set, field_names[j])
                         ELSE set,
         apc, i, Len(field_names))

get_active_potential_constituents(cfg) == apc_loop(cfg, 1, <<>>)

afc_loop(cfg, i, afc) ==
    Loop(LAMBDA set, j : IF values(cfg)[j] = TRUE
                         THEN lhs_insert(set, field_names[j])
                         ELSE set,
         afc, i, Len(field_names))

\* faulty variant: the forcing getter keeps the major filter of the potential getter
get_active_forcing_constituents_major_only(cfg) == apc_loop(cfg, 1, <<>>)

get_active_forcing_constituents(cfg) == afc_loop(cfg, 1, <<>>)

-----------------------------------------------------------------------------
(* The ConstituentsConfig state machine: constructors, set_by_name, getters *)

\* every field name, the external "2N2", and two names that are no field
SetByNameInputs ==
    Range(field_names) \cup {<<"2","N","2">>, <<"X","Y","Z">>, <<"3","X">>}

CCIdle ==
    /\ cc = ConstituentsConfig_default
    /\ cc_op = "default"
    /\ cc_apc = None
    /\ cc_afc = None

BCIdle ==
    /\ hgrid = <<>>
    /\ elevation = None
    /\ velocity = None
    /\ temperature = None
    /\ salinity = None
    /\ pc = "idle"
    /\ apc_set = None
    /\ afc_set = None
    /\ out = <<>>

TFIdle ==
    /\ tf = <<>>
    /\ tf_gw = None
    /\ tf_out = None

NoPanic == panic = None

\* u64: a number below 2^64 as three limbs of nine decimal digits, the
\* number being h * 10^18 + m * 10^9 + l
U64(h, m, l) == [h |-> h, m |-> m, l |-> l]

\* `<=` on u64
u64_le(x, y) ==
    \/ x.h < y.h
    \/ x.h = y.h /\ x.m < y.m
    \/ x.h = y.h /\ x.m = y.m /\ x.l <= y.l

\* std::time::Duration, which humantime::Duration wraps
StdDuration(secs, subsec_nanos) == [secs |-> secs, subsec_nanos |-> subsec_nanos]

\* --run-duration 10days
CliRunDuration == StdDuration(U64(0, 0, 864000), 0)

\* the command line: the words that follow the mesh, the start date, the
\* run duration and the cut-off depth, and the value of --run-duration
Cli(args, run_duration) == [args |-> args, run_duration |-> run_duration]

CLIIdle ==
    /\ cli = Cli(<<>>, CliRunDuration)
    /\ debug_assertions = FALSE
    /\ matches = <<>>
    /\ cli_error = None

BBIdle ==
    /\ builder = <<>>
    /\ built = None

SZIdle ==
    /\ sz = <<>>
    /\ sz_out = None

NHCIdle ==
    /\ inventory = <<>>
    /\ nhc_out = None

RestIdle == CLIIdle /\ BBIdle /\ SZIdle /\ NHCIdle

InitCC == CCIdle /\ BCIdle /\ TFIdle /\ NoPanic /\ RestIdle

CCBuilding == cc_op \notin {"get", "panic"}

SetByName ==
    /\ CCBuilding
    /\ \E n \in SetByNameInputs, v \in BOOLEAN :
          /\ cc' = set_by_name(cc, n, v)
          /\ cc_op' = IF set_by_name_panics(n) THEN "panic" ELSE "set_by_name"
          /\ panic' = IF set_by_name_panics(n)
                      THEN Some(set_by_name_panic_message(n))
                      ELSE panic
    /\ UNCHANGED <<cc_apc, cc_afc, bcvars, tfvars, restvars>>

All ==
    /\ CCBuilding
    /\ cc' = ConstituentsConfig_all
    /\ cc_op' = "all"
    /\ UNCHANGED <<cc_apc, cc_afc, bcvars, tfvars, panic, restvars>>

Major ==
    /\ CCBuilding
    /\ cc' = ConstituentsConfig_major
    /\ cc_op' = "major"
    /\ UNCHANGED <<cc_apc, cc_afc, bcvars, tfvars, panic, restvars>>

Minor ==
    /\ CCBuilding
    /\ cc' = ConstituentsConfig_minor
    /\ cc_op' = "minor"
    /\ UNCHANGED <<cc_apc, cc_afc, bcvars, tfvars, panic, restvars>>

Default ==
    /\ CCBuilding
    /\ cc' = ConstituentsConfig_default
    /\ cc_op' = "default"
    /\ UNCHANGED <<cc_apc, cc_afc, bcvars, tfvars, panic, restvars>>

GetActive ==
    /\ CCBuilding
    /\ cc_apc' = Some(get_active_potential_constituents(cc))
    /\ cc_afc' = Some(get_active_forcing_constituents(cc))
    /\ cc_op' = "get"
    /\ UNCHANGED <<cc, bcvars, tfvars, panic, restvars>>

NextCC == SetByName \/ All \/ Major \/ Minor \/ Default \/ GetActive

SpecCC == InitCC /\ [][NextCC]_vars

-----------------------------------------------------------------------------
(* bctypes.rs: the per-variable configs and their boundary-type codes.     *)
(* A config is a record with its variant's name; the tidal variants carry  *)
(* a TidesConfig. The time series and constant payloads decide nothing     *)
(* modelled here and are left out.                                         *)

TidesConfig(constituents, database) ==
    [constituents |-> constituents, database |-> database]

\* faulty variant: Tides and SpaceVaryingTimeSeries renumbered
ElevationConfig_ibtype_renumbered(self) ==
    CASE self.variant = "UniformTimeSeries" -> 1
      [] self.variant = "ConstantValue" -> 2
      [] self.variant = "Tides" -> 4
      [] self.variant = "SpaceVaryingTimeSeries" -> 3
      [] self.variant = "TidesAndSpaceVaryingTimeSeries" -> 5
      [] self.variant = "EqualToZero" -> -1

ElevationConfig_ibtype(self) ==
    CASE self.variant = "UniformTimeSeries" -> 1
      [] self.variant = "ConstantValue" -> 2
      [] self.variant = "Tides" -> 3
      [] self.variant = "SpaceVaryingTimeSeries" -> 4
      [] self.variant = "TidesAndSpaceVaryingTimeSeries" -> 5
      [] self.variant = "EqualToZero" -> -1

VelocityConfig_ibtype(self) ==
    CASE self.variant = "UniformTimeSeries" -> 1
      [] self.variant = "ConstantValue" -> 2
      [] self.variant = "Tides" -> 3
      [] self.variant = "SpaceVaryingTimeSeries" -> 4
      [] self.variant = "TidesAndSpaceVaryingTimeSeries" -> 5
      [] self.variant = "Flather" -> -1

TemperatureConfig_ibtype(self) ==
    CASE self.variant = "RelaxToUniformTimeSeries" -> 1
      [] self.variant = "RelaxToConstantValue" -> 2
      [] self.variant = "RelaxToInitialConditions" -> 3
      [] self.variant = "RelaxToSpaceVaryingTimeSeries" -> 4

SalinityConfig_ibtype(self) ==
    CASE self.variant = "RelaxToUniformTimeSeries" -> 1
      [] self.variant = "RelaxToConstantValue" -> 2
      [] self.variant = "RelaxToInitialConditions" -> 3
      [] self.variant = "RelaxToSpaceVaryingTimeSeries" -> 4

-----------------------------------------------------------------------------
(* bctides.rs: BoundaryForcingConfig and the two global constituent sets   *)

\* BTreeMap<u32, _> as a function on its keys; iteration is by ascending key
RECURSIVE btree_keys_from(_, _)
btree_keys_from(map, below) ==
    LET rest == {k \in DOMAIN map : k >= below}
    IN  IF rest = {} THEN <<>>
        ELSE LET k == CHOOSE x \in rest : \A y \in rest : x <= y
             IN  <<k>> \o btree_keys_from(map, k + 1)

btree_keys(map) == btree_keys_from(map, 0)

btree_values(map) == [i \in 1..Len(btree_keys(map)) |-> map[btree_keys(map)[i]]]

btree_insert(map, k, v) ==
    [x \in DOMAIN map \cup {k} |-> IF x = k THEN v ELSE map[x]]

\* `for apc in <set>.iter() { hash_set.insert_if_absent(apc) }`
insert_all_if_absent(hash_set, items, i) ==
    Loop(LAMBDA set, j : lhs_insert_if_absent(set, items[j]), hash_set, i, Len(items))

\* the match on one config value of the elevation or velocity mapping, which
\* has the same two tidal arms for both
potential_of_value(hash_set, cfg_value) ==
    CASE cfg_value.variant = "TidesAndSpaceVaryingTimeSeries" ->
            insert_all_if_absent(hash_set,
                get_active_potential_constituents(cfg_value.tides.constituents), 1)
      [] cfg_value.variant = "Tides" ->
            insert_all_if_absent(hash_set,
                get_active_potential_constituents(cfg_value.tides.constituents), 1)
      [] OTHER -> hash_set

\* faulty variant: the TidesAndSpaceVaryingTimeSeries arm is missing
forcing_of_value_tides_only(hash_set, cfg_value) ==
    CASE cfg_value.variant = "Tides" ->
            insert_all_if_absent(hash_set,
                get_active_forcing_constituents(cfg_value.tides.constituents), 1)
      [] OTHER -> hash_set

forcing_of_value(hash_set, cfg_value) ==
    CASE cfg_value.variant = "TidesAndSpaceVaryingTimeSeries" ->
            insert_all_if_absent(hash_set,
                get_active_forcing_constituents(cfg_value.tides.constituents), 1)
      [] cfg_value.variant = "Tides" ->
            insert_all_if_absent(hash_set,
                get_active_forcing_constituents(cfg_value.tides.constituents), 1)
      [] OTHER -> hash_set

\* `for cfg_value in config.values() { match cfg_value ... }`
potential_of_values(hash_set, vals, i) ==
    Loop(LAMBDA set, j : potential_of_value(set, vals[j]), hash_set, i, Len(vals))

forcing_of_values(hash_set, vals, i) ==
    Loop(LAMBDA set, j : forcing_of_value(set, vals[j]), hash_set, i, Len(vals))

\* match self.<variable> { Some(config) => the loop, None => {} }
potential_of_mapping(hash_set, mapping) ==
    IF IsSome(mapping)
    THEN potential_of_values(hash_set, btree_values(Unwrap(mapping)), 1)
    ELSE hash_set

forcing_of_mapping(hash_set, mapping) ==
    IF IsSome(mapping)
    THEN forcing_of_values(hash_set, btree_values(Unwrap(mapping)), 1)
    ELSE hash_set

\* faulty variant: the potential set reads the velocity mapping first
get_active_potential_constituents_set_velocity_first(self) ==
    potential_of_mapping(potential_of_mapping(<<>>, self.velocity), self.elevation)

\* BoundaryForcingConfig::get_active_potential_constituents_set
get_active_potential_constituents_set(self) ==
    potential_of_mapping(potential_of_mapping(<<>>, self.elevation), self.velocity)

\* faulty variant: the velocity mapping is read before the elevation mapping
get_active_forcing_constituents_set_velocity_first(self) ==
    forcing_of_mapping(forcing_of_mapping(<<>>, self.velocity), self.elevation)

\* BoundaryForcingConfig::get_active_forcing_constituents_set
get_active_forcing_constituents_set(self) ==
    forcing_of_mapping(forcing_of_mapping(<<>>, self.elevation), self.velocity)

\* BoundaryForcingConfigBuilder::build with hgrid set: the four Options are copied
BoundaryForcingConfig(h, e, v, t, s) ==
    [hgrid |-> h, elevation |-> e, velocity |-> v, temperature |-> t, salinity |-> s]

-----------------------------------------------------------------------------
(* bctides.rs: Bctides, its boundary-type codes and Display                *)

\* one `match self.boundary_forcing_config.<variable>` of get_bctypes_vec:
\* Some(conf) pushes ibtype() only if conf has the key, None pushes 0
push_bctype(bctypes, mapping, this_bnd_key, code) ==
    IF IsSome(mapping)
    THEN IF this_bnd_key \in DOMAIN Unwrap(mapping)
         THEN Append(bctypes, code)
         ELSE bctypes
    ELSE Append(bctypes, 0)

ibtype_at(mapping, this_bnd_key, kind) ==
    IF IsSome(mapping) /\ this_bnd_key \in DOMAIN Unwrap(mapping)
    THEN CASE kind = "elevation" -> ElevationConfig_ibtype(Unwrap(mapping)[this_bnd_key])
           [] kind = "velocity" -> VelocityConfig_ibtype(Unwrap(mapping)[this_bnd_key])
           [] kind = "temperature" -> TemperatureConfig_ibtype(Unwrap(mapping)[this_bnd_key])
           [] kind = "salinity" -> SalinityConfig_ibtype(Unwrap(mapping)[this_bnd_key])
    ELSE 0

get_bctypes_vec(self, this_bnd_key) ==
    LET conf == self.boundary_forcing_config
        b1 == push_bctype(<<>>, conf.elevation, this_bnd_key,
                          ibtype_at(conf.elevation, this_bnd_key, "elevation"))
        b2 == push_bctype(b1, conf.velocity, this_bnd_key,
                          ibtype_at(conf.velocity, this_bnd_key, "velocity"))
        b3 == push_bctype(b2, conf.temperature, this_bnd_key,
                          ibtype_at(conf.temperature, this_bnd_key, "temperature"))
        b4 == push_bctype(b3, conf.salinity, this_bnd_key,
                          ibtype_at(conf.salinity, this_bnd_key, "salinity"))
    IN  b4

\* get_bctypes_line: the node count, then the codes
get_bctypes_line(this_nodes_len, bctypes_vec) == <<this_nodes_len>> \o bctypes_vec

\* faulty variant: the leading underscore stays
strip_prefix_kept(constituent) == constituent

\* str::strip_prefix('_').unwrap_or(constituent)
strip_prefix(constituent) ==
    IF Len(constituent) > 0 /\ constituent[1] = "_"
    THEN Tail(constituent)
    ELSE constituent

-----------------------------------------------------------------------------
(* tidefac.rs: the Greenwich argument of the constituents whose branch is  *)
(* a linear combination of DT, DS, DP, DH and DP1.                         *)
(*                                                                         *)
(* An angle is an exact number [w, a, b, c] = w + a/10^5 + b/10^10         *)
(* + c/(7200 * 10^10) with 0 <= a, b < 10^5 and 0 <= c < 7200: every       *)
(* literal of the source has at most ten decimals (c = 0), hour_middle is  *)
(* a whole number of 7200ths, and the limbs keep each product inside 32    *)
(* bits. The rounding of f64 is not modelled. The branches that use DXI,   *)
(* DNU, DNUP, DNUP2, DR or DQ need sin/cos/atan and are not modelled.      *)

Limb == 100000

\* hour_middle: `/ 3600.0`, then `/ 2.0`
TwoHours == 3600 * 2

dnorm(w, a, b, c) ==
    LET b1 == b + (c \div TwoHours)
        a1 == a + (b1 \div Limb)
    IN  [w |-> w + (a1 \div Limb), a |-> a1 % Limb, b |-> b1 % Limb, c |-> c % TwoHours]

\* a literal of the source: w.aaaaabbbbb
Dec(w, a, b) == dnorm(w, a, b, 0)

dint(n) == Dec(n, 0, 0)
dadd(x, y) == dnorm(x.w + y.w, x.a + y.a, x.b + y.b, x.c + y.c)
dneg(x) == dnorm(-x.w, -x.a, -x.b, -x.c)
dsub(x, y) == dadd(x, dneg(y))
dmul(n, x) == dnorm(n * x.w, n * x.a, n * x.b, n * x.c)
dnegative(x) == x.w < 0

\* x / 3600 / 2 for an x with c = 0: the long division, limb by limb
dover(x) ==
    LET a1 == (x.w % TwoHours) * Limb + x.a
        b1 == (a1 % TwoHours) * Limb + x.b
    IN  [w |-> x.w \div TwoHours, a |-> a1 \div TwoHours, b |-> b1 \div TwoHours, c |-> b1 % TwoHours]

\* the 7200ths of x beyond its whole part, for an x that is a whole number of
\* 7200ths
parts(x) == (x.a * TwoHours + ((x.b * TwoHours + x.c) \div Limb)) \div Limb

\* `y * x` for a literal y and an x that is a whole number of 7200ths
dtimes(y, x) == dadd(dmul(x.w, y), dover(dmul(parts(x), y)))

\* f64 `%`: the remainder has the sign of the dividend
frem(x, m) ==
    IF dnegative(x)
    THEN LET p == dneg(x) IN dneg([p EXCEPT !.w = p.w % m])
    ELSE [x EXCEPT !.w = x.w % m]

\* i32 `/`: the quotient is truncated toward zero
idiv(x, y) == IF x >= 0 THEN x \div y ELSE -((-x) \div y)

\* chrono::Duration: whole seconds and the nanoseconds beyond them
Duration(secs, nanos) == [secs |-> secs, nanos |-> nanos]

\* Duration::num_seconds: the whole seconds, rounded toward zero
num_seconds(d) == IF d.secs < 0 /\ d.nanos > 0 THEN d.secs + 1 ELSE d.secs

\* hour_middle: start_hour + (num_seconds / 3600.0) / 2.0
hour_middle(self) ==
    dadd(dint(self.start_date.hour), dover(dint(num_seconds(self.run_duration))))

DYR(self) == self.start_date.year - 1900

DDAY(self) ==
    LET day_of_year == self.start_date.ordinal
        years_since_1901 == self.start_date.year - 1901
        leap_years_since_1901 == idiv(years_since_1901 - 1, 4)
    IN  day_of_year + leap_years_since_1901 - 1

\* 259.1560564 - 19.328185764 DYR - 0.0529539336 DDAY - 0.0022064139 hour_middle
get_lunar_node(self) ==
    dsub(dsub(Dec(259, 15605, 64000), dmul(DYR(self), Dec(19, 32818, 57640))),
         dadd(dmul(DDAY(self), Dec(0, 5295, 39336)),
              dtimes(Dec(0, 220, 64139), hour_middle(self))))

\* 334.3837214 + 40.66246584 DYR + 0.111404016 DDAY + 0.004641834 hour_middle
get_lunar_perigee(self) ==
    dadd(dadd(Dec(334, 38372, 14000), dmul(DYR(self), Dec(40, 66246, 58400))),
         dadd(dmul(DDAY(self), Dec(0, 11140, 40160)),
              dtimes(Dec(0, 464, 18340), hour_middle(self))))

\* faulty variant: the lunar mean longitude is taken at the middle of the run
get_lunar_mean_longitude_at_middle(self) ==
    dadd(dadd(Dec(277, 2562, 6000), dmul(DYR(self), Dec(129, 38482, 3200))),
         dadd(dmul(DDAY(self), Dec(13, 17639, 67680)),
              dtimes(Dec(0, 54901, 65320), hour_middle(self))))

\* 277.0256206 + 129.38482032 DYR + 13.176396768 DDAY + 0.549016532 hour
get_lunar_mean_longitude(self) ==
    dadd(dadd(Dec(277, 2562, 6000), dmul(DYR(self), Dec(129, 38482, 3200))),
         dadd(dmul(DDAY(self), Dec(13, 17639, 67680)),
              dmul(self.start_date.hour, Dec(0, 54901, 65320))))

\* 281.2208569 + 0.01717836 DYR + 0.000047064 DDAY + 0.000001961 hour
get_solar_perigee(self) ==
    dadd(dadd(Dec(281, 22085, 69000), dmul(DYR(self), Dec(0, 1717, 83600))),
         dadd(dmul(DDAY(self), Dec(0, 4, 70640)),
              dmul(self.start_date.hour, Dec(0, 0, 19610))))

\* 280.1895014 - 0.238724988 DYR + 0.9856473288 DDAY + 0.0410686387 hour
get_solar_mean_longitude(self) ==
    dadd(dsub(Dec(280, 18950, 14000), dmul(DYR(self), Dec(0, 23872, 49880))),
         dadd(dmul(DDAY(self), Dec(0, 98564, 73288)),
              dmul(self.start_date.hour, Dec(0, 4106, 86387))))

\* 180.0 + hour * (360.0 / 24.0)
DT(self) == dint(180 + self.start_date.hour * 15)
DS(self) == get_lunar_mean_longitude(self)
DP(self) == get_lunar_perigee(self)
DH(self) == get_solar_mean_longitude(self)
DP1(self) == get_solar_perigee(self)

\* the constituents whose arm of greenwich_factor has no nodal term
LinearConstituents ==
    { <<"S","2">>, <<"S","4">>, <<"S","6">>, <<"S","1">>, <<"M","m">>,
      <<"S","s","a">>, <<"S","a">>, <<"M","s","f">>, <<"T","2">>, <<"R","2">>,
      <<"P","1">>, <<"Z","0">> }

\* the match of greenwich_factor, before `result % 360.`
greenwich_result(self) ==
    CASE self.constituent = <<"S","2">> -> dmul(2, DT(self))
      [] self.constituent = <<"S","4">> -> dmul(4, DT(self))
      [] self.constituent = <<"S","6">> -> dmul(6, DT(self))
      [] self.constituent = <<"S","1">> -> DT(self)
      [] self.constituent = <<"M","m">> -> dsub(DS(self), DP(self))
      [] self.constituent = <<"S","s","a">> -> dmul(2, DH(self))
      [] self.constituent = <<"S","a">> -> DH(self)
      [] self.constituent = <<"M","s","f">> -> dmul(2, dsub(DS(self), DH(self)))
      [] self.constituent = <<"T","2">> ->
            dadd(dsub(dmul(2, DT(self)), DH(self)), DP1(self))
      [] self.constituent = <<"R","2">> ->
            dadd(dsub(dadd(dmul(2, DT(self)), DH(self)), DP1(self)), dint(180))
      [] self.constituent = <<"P","1">> ->
            dadd(dsub(DT(self), DH(self)), dint(90))
      [] self.constituent = <<"Z","0">> -> dint(0)

greenwich_factor(self) == frem(greenwich_result(self), 360)

\* tidefac(): the constituent loses a leading underscore
tidefac(start_date, run_duration, constituent) ==
    [start_date |-> start_date, run_duration |-> run_duration,
     constituent |-> strip_prefix(constituent)]


-----------------------------------------------------------------------------
(* tidefac.rs: the constituent tables and the lookups on them. A table     *)
(* value that is an f64 literal is kept as the text of the literal.        *)

TIDAL_SPECIES_TYPE_MAP ==
    (<<"M","2">> :> 2)
    @@ (<<"S","2">> :> 2)
    @@ (<<"N","2">> :> 2)
    @@ (<<"K","2">> :> 2)
    @@ (<<"K","1">> :> 1)
    @@ (<<"O","1">> :> 1)
    @@ (<<"P","1">> :> 1)
    @@ (<<"Q","1">> :> 1)
    @@ (<<"Z","0">> :> 0)

TIDAL_POTENTIAL_AMPLITUDES_MAP ==
    (<<"M","2">> :> "0.242334")
    @@ (<<"S","2">> :> "0.112841")
    @@ (<<"N","2">> :> "0.046398")
    @@ (<<"K","2">> :> "0.030704")
    @@ (<<"K","1">> :> "0.141565")
    @@ (<<"O","1">> :> "0.100514")
    @@ (<<"P","1">> :> "0.046843")
    @@ (<<"Q","1">> :> "0.019256")
    @@ (<<"Z","0">> :> "0.")

\* faulty variant: the orbital frequency table misses 2N2
ORBITAL_FREQUENCIES_without_2N2 ==
    (<<"M","4">> :> "0.0002810378050173")
    @@ (<<"M","6">> :> "0.0004215567080107")
    @@ (<<"M","K","3">> :> "0.0002134400613513")
    @@ (<<"S","4">> :> "0.0002908882086657")
    @@ (<<"M","N","4">> :> "0.0002783986019952")
    @@ (<<"S","6">> :> "0.0004363323129986")
    @@ (<<"M","3">> :> "0.0002107783537630")
    @@ (<<"2","M","K","3">> :> "0.0002081166466594")
    @@ (<<"M","8">> :> "0.0005620756090649")
    @@ (<<"M","S","4">> :> "0.0002859630068415")
    @@ (<<"M","2">> :> "0.0001405189025086")
    @@ (<<"S","2">> :> "0.0001454441043329")
    @@ (<<"N","2">> :> "0.0001378796994865")
    @@ (<<"N","u","2">> :> "0.0001382329037065")
    @@ (<<"M","U","2">> :> "0.0001355937006844")
    @@ (<<"l","a","m","b","d","a","2">> :> "0.0001428049013108")
    @@ (<<"T","2">> :> "0.0001452450073529")
    @@ (<<"R","2">> :> "0.0001456432013128")
    @@ (<<"2","S","M","2">> :> "0.0001503693061571")
    @@ (<<"L","2">> :> "0.0001431581055307")
    @@ (<<"K","2">> :> "0.0001458423172006")
    @@ (<<"K","1">> :> "0.0000729211583579")
    @@ (<<"O","1">> :> "0.0000675977441508")
    @@ (<<"O","O","1">> :> "0.0000782445730498")
    @@ (<<"S","1">> :> "0.0000727220521664")
    @@ (<<"M","1">> :> "0.0000702594512543")
    @@ (<<"J","1">> :> "0.0000755603613800")
    @@ (<<"R","H","O">> :> "0.0000653117453487")
    @@ (<<"Q","1">> :> "0.0000649585411287")
    @@ (<<"2","Q","1">> :> "0.0000623193381066")
    @@ (<<"P","1">> :> "0.0000725229459750")
    @@ (<<"M","m">> :> "0.0000026392030221")
    @@ (<<"S","s","a">> :> "0.0000003982128677")
    @@ (<<"S","a">> :> "0.0000001991061914")
    @@ (<<"M","s","f">> :> "0.0000049252018242")
    @@ (<<"M","f">> :> "0.0000053234146919")
    @@ (<<"Z","0">> :> "0.0")

ORBITAL_FREQUENCIES ==
    (<<"M","4">> :> "0.0002810378050173")
    @@ (<<"M","6">> :> "0.0004215567080107")
    @@ (<<"M","K","3">> :> "0.0002134400613513")
    @@ (<<"S","4">> :> "0.0002908882086657")
    @@ (<<"M","N","4">> :> "0.0002783986019952")
    @@ (<<"S","6">> :> "0.0004363323129986")
    @@ (<<"M","3">> :> "0.0002107783537630")
    @@ (<<"2","M","K","3">> :> "0.0002081166466594")
    @@ (<<"M","8">> :> "0.0005620756090649")
    @@ (<<"M","S","4">> :> "0.0002859630068415")
    @@ (<<"M","2">> :> "0.0001405189025086")
    @@ (<<"S","2">> :> "0.0001454441043329")
    @@ (<<"N","2">> :> "0.0001378796994865")
    @@ (<<"N","u","2">> :> "0.0001382329037065")
    @@ (<<"M","U","2">> :> "0.0001355937006844")
    @@ (<<"2","N","2">> :> "0.0001352404964644")
    @@ (<<"l","a","m","b","d","a","2">> :> "0.0001428049013108")
    @@ (<<"T","2">> :> "0.0001452450073529")
    @@ (<<"R","2">> :> "0.0001456432013128")
    @@ (<<"2","S","M","2">> :> "0.0001503693061571")
    @@ (<<"L","2">> :> "0.0001431581055307")
    @@ (<<"K","2">> :> "0.0001458423172006")
    @@ (<<"K","1">> :> "0.0000729211583579")
    @@ (<<"O","1">> :> "0.0000675977441508")
    @@ (<<"O","O","1">> :> "0.0000782445730498")
    @@ (<<"S","1">> :> "0.0000727220521664")
    @@ (<<"M","1">> :> "0.0000702594512543")
    @@ (<<"J","1">> :> "0.0000755603613800")
    @@ (<<"R","H","O">> :> "0.0000653117453487")
    @@ (<<"Q","1">> :> "0.0000649585411287")
    @@ (<<"2","Q","1">> :> "0.0000623193381066")
    @@ (<<"P","1">> :> "0.0000725229459750")
    @@ (<<"M","m">> :> "0.0000026392030221")
    @@ (<<"S","s","a">> :> "0.0000003982128677")
    @@ (<<"S","a">> :> "0.0000001991061914")
    @@ (<<"M","s","f">> :> "0.0000049252018242")
    @@ (<<"M","f">> :> "0.0000053234146919")
    @@ (<<"Z","0">> :> "0.0")

\* the match of nodal_factor: each arm as the product of the equations it
\* multiplies (the empty product is the literal 1.0)
nodal_factor_arms ==
    (<<"M","2">> :> <<"EQ78">>)
    @@ (<<"S","2">> :> <<>>)
    @@ (<<"N","2">> :> <<"EQ78">>)
    @@ (<<"K","1">> :> <<"EQ227">>)
    @@ (<<"M","4">> :> <<"EQ78", "EQ78">>)
    @@ (<<"O","1">> :> <<"EQ75">>)
    @@ (<<"M","6">> :> <<"EQ78", "EQ78", "EQ78">>)
    @@ (<<"M","K","3">> :> <<"EQ78", "EQ227">>)
    @@ (<<"S","4">> :> <<>>)
    @@ (<<"M","N","4">> :> <<"EQ78", "EQ78">>)
    @@ (<<"N","u","2">> :> <<"EQ78">>)
    @@ (<<"S","6">> :> <<>>)
    @@ (<<"M","U","2">> :> <<"EQ78">>)
    @@ (<<"2","N","2">> :> <<"EQ78">>)
    @@ (<<"O","O","1">> :> <<"EQ77">>)
    @@ (<<"l","a","m","b","d","a","2">> :> <<"EQ78">>)
    @@ (<<"S","1">> :> <<>>)
    @@ (<<"M","1">> :> <<"EQ207">>)
    @@ (<<"J","1">> :> <<"EQ76">>)
    @@ (<<"M","m">> :> <<"EQ73">>)
    @@ (<<"S","s","a">> :> <<>>)
    @@ (<<"S","a">> :> <<>>)
    @@ (<<"M","s","f">> :> <<"EQ78">>)
    @@ (<<"M","f">> :> <<"EQ74">>)
    @@ (<<"R","H","O">> :> <<"EQ75">>)
    @@ (<<"Q","1">> :> <<"EQ75">>)
    @@ (<<"T","2">> :> <<>>)
    @@ (<<"R","2">> :> <<>>)
    @@ (<<"2","Q","1">> :> <<"EQ75">>)
    @@ (<<"P","1">> :> <<>>)
    @@ (<<"2","S","M","2">> :> <<"EQ78">>)
    @@ (<<"M","3">> :> <<"EQ149">>)
    @@ (<<"L","2">> :> <<"EQ215">>)
    @@ (<<"2","M","K","3">> :> <<"EQ227", "EQ78", "EQ78">>)
    @@ (<<"K","2">> :> <<"EQ235">>)
    @@ (<<"M","8">> :> <<"EQ78", "EQ78", "EQ78", "EQ78">>)
    @@ (<<"M","S","4">> :> <<"EQ78">>)
    @@ (<<"Z","0">> :> <<>>)

\* the constituents the match of greenwich_factor has an arm for
greenwich_factor_arms ==
    { <<"M","2">>, <<"S","2">>, <<"N","2">>, <<"K","1">>, <<"M","4">>, <<"O","1">>,
      <<"M","6">>, <<"M","K","3">>, <<"S","4">>, <<"M","N","4">>, <<"N","u","2">>, <<"S","6">>,
      <<"M","U","2">>, <<"2","N","2">>, <<"O","O","1">>, <<"l","a","m","b","d","a","2">>, <<"S","1">>, <<"M","1">>,
      <<"J","1">>, <<"M","m">>, <<"S","s","a">>, <<"S","a">>, <<"M","s","f">>, <<"M","f">>,
      <<"R","H","O">>, <<"Q","1">>, <<"T","2">>, <<"R","2">>, <<"2","Q","1">>, <<"P","1">>,
      <<"2","S","M","2">>, <<"M","3">>, <<"L","2">>, <<"2","M","K","3">>, <<"K","2">>, <<"M","8">>,
      <<"M","S","4">>, <<"Z","0">> }

\* what a call comes to: the value it returns, or the message of its panic
Returned(v) == [value |-> Some(v), panic |-> None]
Panicked(m) == [value |-> None, panic |-> Some(m)]

\* A Result is Ok(v) or Err(e)
Ok(v) == [ok |-> Some(v), err |-> None]
Err(e) == [ok |-> None, err |-> Some(e)]

\* faulty variant: a missing species type defaults to 0
tidal_species_type_or_default(self) ==
    IF self.constituent \in DOMAIN TIDAL_SPECIES_TYPE_MAP
    THEN Returned(TIDAL_SPECIES_TYPE_MAP[self.constituent])
    ELSE Returned(0)

\* TIDAL_SPECIES_TYPE_MAP.get(self.constituent).expect(..)
tidal_species_type(self) ==
    IF self.constituent \in DOMAIN TIDAL_SPECIES_TYPE_MAP
    THEN Returned(TIDAL_SPECIES_TYPE_MAP[self.constituent])
    ELSE Panicked(PanicMessage(
            <<"Failed", "to", "get", "tidal_species_type", "for", "constituent">>,
            <<self.constituent>>))

\* faulty variant: every constituent gets the amplitude of M2
tidal_potential_amplitude_of_M2(self) ==
    Returned(TIDAL_POTENTIAL_AMPLITUDES_MAP[<<"M","2">>])

\* TIDAL_POTENTIAL_AMPLITUDES_MAP.get(self.constituent).expect(..)
tidal_potential_amplitude(self) ==
    IF self.constituent \in DOMAIN TIDAL_POTENTIAL_AMPLITUDES_MAP
    THEN Returned(TIDAL_POTENTIAL_AMPLITUDES_MAP[self.constituent])
    ELSE Panicked(PanicMessage(
            <<"Failed", "to", "get", "tidal_potential_amplitude", "for", "constituent">>,
            <<self.constituent>>))

\* ORBITAL_FREQUENCIES.get(self.constituent).expect(..)
orbital_frequency(self) ==
    IF self.constituent \in DOMAIN ORBITAL_FREQUENCIES
    THEN Returned(ORBITAL_FREQUENCIES[self.constituent])
    ELSE Panicked(PanicMessage(
            <<"Failed", "to", "fetch", "orbital", "frequency", "for", "contituent:">>,
            <<self.constituent>>))

\* faulty variant: a constituent without an arm gets the factor 1.0
nodal_factor_or_one(self) ==
    IF self.constituent \in DOMAIN nodal_factor_arms
    THEN Returned(nodal_factor_arms[self.constituent])
    ELSE Returned(<<>>)

\* nodal_factor: the arm of the constituent, `_ => panic!("Unhandled constituent: {}")`
nodal_factor(self) ==
    IF self.constituent \in DOMAIN nodal_factor_arms
    THEN Returned(nodal_factor_arms[self.constituent])
    ELSE Panicked(PanicMessage(<<"Unhandled", "constituent:">>, <<self.constituent>>))

\* greenwich_factor as a call: the angle of a linear arm, the arm itself for
\* an arm with a nodal term, `_ => panic!("Unrecognized constituent {}")`
greenwich_factor_call(self) ==
    IF self.constituent \notin greenwich_factor_arms
    THEN Panicked(PanicMessage(<<"Unrecognized", "constituent">>, <<self.constituent>>))
    ELSE IF self.constituent \in LinearConstituents
         THEN Returned(greenwich_factor(self))
         ELSE Returned([arm |-> self.constituent])

-----------------------------------------------------------------------------
\* Bctides: the four fields of the struct
Bctides(start_date, run_duration, tidal_potential_cutoff_depth, boundary_forcing_config) ==
    [start_date |-> start_date, run_duration |-> run_duration,
     tidal_potential_cutoff_depth |-> tidal_potential_cutoff_depth,
     boundary_forcing_config |-> boundary_forcing_config]

tip_dp(self) == self.tidal_potential_cutoff_depth

\* Display::fmt. What it comes to is the lines it wrote (out), the panic that
\* ended it if one did, and its locals apc_set and afc_set as far as it got.
Written(lines, p, apc, afc) ==
    [out |-> lines, panic |-> p, apc_set |-> apc, afc_set |-> afc]

\* the arguments of the write! of a potential block, in evaluation order
potential_calls(r) ==
    << [field |-> "tidal_species_type", outcome |-> tidal_species_type(r)],
       [field |-> "tidal_potential_amplitude", outcome |-> tidal_potential_amplitude(r)],
       [field |-> "orbital_frequency", outcome |-> orbital_frequency(r)],
       [field |-> "nodal_factor", outcome |-> nodal_factor(r)],
       [field |-> "greenwich_factor", outcome |-> greenwich_factor_call(r)] >>

\* the arguments of the write! of a forcing block, in evaluation order
forcing_calls(r) ==
    << [field |-> "orbital_frequency", outcome |-> orbital_frequency(r)],
       [field |-> "nodal_factor", outcome |-> nodal_factor(r)],
       [field |-> "greenwich_factor", outcome |-> greenwich_factor_call(r)] >>

\* the first argument whose evaluation panics: nothing of the block is written
first_panic(calls) ==
    LET bad == {i \in 1..Len(calls) : calls[i].outcome.panic # None}
    IN  IF bad = {} THEN None ELSE calls[Min(bad)].outcome.panic

\* one constituent block: the name line and the values line
block(kind, constituent, calls) ==
    [kind |-> kind,
     name |-> strip_prefix(constituent),
     fields |-> [i \in 1..Len(calls) |-> calls[i].field],
     values |-> [i \in 1..Len(calls) |-> Unwrap(calls[i].outcome.value)]]

\* one turn of the loop: the arguments are evaluated, then the block is written
write_block(kind, constituent, calls, lines) ==
    IF first_panic(calls) # None
    THEN [out |-> lines, panic |-> first_panic(calls)]
    ELSE [out |-> Append(lines, block(kind, constituent, calls)), panic |-> None]

\* the turn of one constituent on its own: `let r = tidefac(..); write!(..)?;`
\* with r and the arguments each bound once
turn(self, kind, constituent) ==
    CHOOSE b \in
        {write_block(kind, constituent, calls, <<>>) :
            calls \in {IF kind = "potential"
                       THEN potential_calls(r) ELSE forcing_calls(r) :
               r \in {tidefac(self.start_date, self.run_duration, constituent)}}} :
        TRUE

\* the loop over the turns: the blocks before the first turn that panics
\* are written, and that panic, if there is one, ends the loop
written_turns(turns, lines) ==
    LET bad == {i \in 1..Len(turns) : turns[i].panic # None}
    IN  IF bad = {}
        THEN [out |-> lines \o [i \in 1..Len(turns) |-> turns[i].out[1]],
              panic |-> None]
        ELSE [out |-> lines \o [i \in 1..(Min(bad) - 1) |-> turns[i].out[1]],
              panic |-> turns[Min(bad)].panic]

\* `for constituent in set.iter() { .. }`
write_blocks(self, kind, set, lines) ==
    CHOOSE w \in
        {written_turns(turns, lines) :
            turns \in {[i \in 1..Len(set) |-> turn(self, kind, set[i])] \o <<>>}} :
        TRUE

fmt_potential(self, apc, lines) == write_blocks(self, "potential", apc, lines)

\* faulty variant: the forcing blocks are written like the potential blocks
fmt_forcing_as_potential(self, afc, lines) ==
    write_blocks(self, "potential", afc, lines)

fmt_forcing(self, afc, lines) == write_blocks(self, "forcing", afc, lines)

\* Option::unwrap on None
unwrap_panic_message ==
    PanicMessage(<<"called", "Option::unwrap()", "on", "a", "None", "value">>, <<>>)

\* get_boundary_string: the body lines of the boundaries, one text for the
\* whole Bctides
get_boundary_string(self) == [kind |-> "boundary_string"]

\* faulty variant: the segments are looked up under the keys 1, 2, ..
fmt_segments_one_based(self, lines) ==
    LET open == self.boundary_forcing_config.hgrid
    IN  IF open = None
        THEN [out |-> lines, panic |-> Some(unwrap_panic_message)]
        ELSE LET nodes_ids == Unwrap(open)
             IN  [out |-> lines
                          \o <<[kind |-> "n_segments", n |-> Len(nodes_ids)]>>
                          \o [j \in 1..(2 * Len(nodes_ids)) |->
                                IF j % 2 = 1
                                THEN [kind |-> "segment",
                                      line |-> get_bctypes_line(nodes_ids[(j + 1) \div 2],
                                                  get_bctypes_vec(self, (j + 1) \div 2))]
                                ELSE get_boundary_string(self)],
                  panic |-> None]

\* hgrid.boundaries().unwrap().open().unwrap().nodes_ids(), the count line
\* and, per segment under the keys 0, 1, .., the line of its codes and then
\* the boundary string
fmt_segments(self, lines) ==
    LET open == self.boundary_forcing_config.hgrid
    IN  IF open = None
        THEN [out |-> lines, panic |-> Some(unwrap_panic_message)]
        ELSE LET nodes_ids == Unwrap(open)
             IN  [out |-> lines
                          \o <<[kind |-> "n_segments", n |-> Len(nodes_ids)]>>
                          \o [j \in 1..(2 * Len(nodes_ids)) |->
                                IF j % 2 = 1
                                THEN [kind |-> "segment",
                                      line |-> get_bctypes_line(nodes_ids[(j + 1) \div 2],
                                                  get_bctypes_vec(self, ((j + 1) \div 2) - 1))]
                                ELSE get_boundary_string(self)],
                  panic |-> None]

fmt_lines(self, apc, afc) ==
    LET head == << [kind |-> "start_date", value |-> self.start_date],
                   [kind |-> "n_potential", n |-> Len(apc), tip_dp |-> tip_dp(self)] >>
        w1 == fmt_potential(self, apc, head)
        w2 == fmt_forcing(self, afc,
                          Append(w1.out, [kind |-> "n_forcing", n |-> Len(afc)]))
        w3 == fmt_segments(self, w2.out)
    IN  IF w1.panic # None THEN Written(w1.out, w1.panic, Some(apc), None)
        ELSE IF w2.panic # None THEN Written(w2.out, w2.panic, Some(apc), Some(afc))
        ELSE Written(w3.out, w3.panic, Some(apc), Some(afc))

\* faulty variant: the set is a HashSet, whose iteration order belongs to the
\* table built by the call and not to the insertions; two sets holding the
\* same elements can be iterated in the order of insertion or in its reverse
iter_unordered(set) == {set, [i \in 1..Len(set) |-> set[Len(set) + 1 - i]]}

\* LinkedHashSet::iter: the orders in which the loop can see the elements of
\* the set; a LinkedHashSet has one, the order of insertion
iter(set) == {set}

\* fmt with its two locals, each computed once and then iterated: the texts
\* a call can write, one for each order in which `apc_set.iter()` and
\* `afc_set.iter()` can go through the two sets
fmt(self) ==
    {fmt_lines(self, apc, afc) :
        apc \in UNION {iter(apc_set_) :
                  apc_set_ \in {get_active_potential_constituents_set(self.boundary_forcing_config)}},
        afc \in UNION {iter(afc_set_) :
                  afc_set_ \in {get_active_forcing_constituents_set(self.boundary_forcing_config)}}}

-----------------------------------------------------------------------------
(* The boundary forcing state machine of the library: a caller fills the   *)
(* four mappings entry by entry with configs of any type and hands them to *)
(* the BoundaryForcingConfigBuilder; the Bctides built from them is        *)
(* rendered, at most twice; a panic ends the run. The command line, which  *)
(* accepts one type only, is the machine of SpecCli below.                 *)

MaxOpenBnd == 2
MaxEntries == 2

BndKeys == 0..(MaxOpenBnd - 1)

\* the mesh with n open boundary segments; segment i has i + 1 nodes
Mesh(n) == [i \in 1..n |-> i + 1]

\* the open boundaries a mesh can have: none at all, or 1..MaxOpenBnd segments
HgridInputs == {None} \cup {Some(Mesh(n)) : n \in 1..MaxOpenBnd}

\* the start date, run duration and cut-off depth of the runs
CliStartDate ==
    [year |-> 2012, ordinal |-> 303, hour |-> 0, minute |-> 0, second |-> 0]
CliCutoffDepth == 50

\* std Duration::as_secs: the whole seconds, a u64
as_secs(d) == d.secs

\* i64::MAX = 9223372036854775807, and the most seconds of a chrono Duration,
\* i64::MAX / 1000
i64_MAX == U64(9, 223372036, 854775807)
Duration_MAX_secs == U64(0, 9223372, 36854775)

\* u64 -> i64 try_into(): Err(TryFromIntError(())) above i64::MAX
try_into_i64(value) ==
    IF u64_le(value, i64_MAX) THEN Ok(value) ELSE Err("TryFromIntError(())")

\* the number of seconds as an integer of the model, which holds the seconds
\* of a run below 2^31
i64_seconds(value) == (value.h * 1000000000 + value.m) * 1000000000 + value.l

\* chrono Duration::try_seconds: None when the seconds are out of bounds
try_seconds(seconds) ==
    IF u64_le(seconds, Duration_MAX_secs)
    THEN Some(Duration(i64_seconds(seconds), 0))
    ELSE None

\* Result::unwrap on Err(e)
result_unwrap_panic_message(e) ==
    PanicMessage(<<"called", "Result::unwrap()", "on", "an", "Err", "value:">>, <<e>>)

\* entrypoint:
\* Duration::try_seconds(cli.run_duration.as_secs().try_into().unwrap()).unwrap()
entrypoint_run_duration(cli_run_duration) ==
    LET converted == try_into_i64(as_secs(cli_run_duration))
    IN  IF converted.err # None
        THEN Panicked(result_unwrap_panic_message(Unwrap(converted.err)))
        ELSE IF try_seconds(Unwrap(converted.ok)) = None
        THEN Panicked(unwrap_panic_message)
        ELSE Returned(Unwrap(try_seconds(Unwrap(converted.ok))))

from_names(names) == set_all_by_name(ConstituentsConfig_default, names, 1)

ConstituentsInputs ==
    { from_names(<< <<"M","2">>, <<"S","2">> >>),
      from_names(<< <<"K","1">>, <<"2","N","2">> >>) }

TidesInputs == {TidesConfig(c, "TPXO") : c \in ConstituentsInputs}

ElevationInputs ==
    {[variant |-> v] : v \in {"UniformTimeSeries", "ConstantValue",
                              "SpaceVaryingTimeSeries", "EqualToZero"}}
    \cup {[variant |-> v, tides |-> t] :
            v \in {"Tides", "TidesAndSpaceVaryingTimeSeries"}, t \in TidesInputs}

VelocityInputs ==
    {[variant |-> v] : v \in {"UniformTimeSeries", "ConstantValue",
                              "SpaceVaryingTimeSeries", "Flather"}}
    \cup {[variant |-> v, tides |-> t] :
            v \in {"Tides", "TidesAndSpaceVaryingTimeSeries"}, t \in TidesInputs}

TracerInputs ==
    {[variant |-> v] : v \in {"RelaxToUniformTimeSeries", "RelaxToConstantValue",
                              "RelaxToInitialConditions",
                              "RelaxToSpaceVaryingTimeSeries"}}

mapping_len(mapping) ==
    IF IsSome(mapping) THEN Cardinality(DOMAIN Unwrap(mapping)) ELSE 0

TotalEntries ==
    mapping_len(elevation) + mapping_len(velocity)
    + mapping_len(temperature) + mapping_len(salinity)

\* BTreeMap::insert(bnd_key, config) on the caller's map, which the setter of
\* the BoundaryForcingConfigBuilder then stores as Some(map)
mapping_insert(mapping, k, v) ==
    IF IsSome(mapping) THEN Some(btree_insert(Unwrap(mapping), k, v))
    ELSE Some(btree_insert(<<>>, k, v))

CanInsert(mapping, k) ==
    /\ pc = "config"
    /\ \/ TotalEntries < MaxEntries
       \/ IsSome(mapping) /\ k \in DOMAIN Unwrap(mapping)

Init ==
    /\ CCIdle
    /\ TFIdle
    /\ NoPanic
    /\ RestIdle
    /\ hgrid \in HgridInputs
    /\ elevation = None
    /\ velocity = None
    /\ temperature = None
    /\ salinity = None
    /\ pc = "config"
    /\ apc_set = None
    /\ afc_set = None
    /\ out = <<>>

\* BoundaryForcingConfigBuilder::elevation, velocity, temperature, salinity
\* with the caller's map grown by one entry
InsertElevation ==
    /\ \E k \in BndKeys, c \in ElevationInputs :
          /\ CanInsert(elevation, k)
          /\ elevation' = mapping_insert(elevation, k, c)
    /\ UNCHANGED <<hgrid, velocity, temperature, salinity, pc, apc_set, afc_set, out, ccvars, tfvars, panic, restvars>>

InsertVelocity ==
    /\ \E k \in BndKeys, c \in VelocityInputs :
          /\ CanInsert(velocity, k)
          /\ velocity' = mapping_insert(velocity, k, c)
    /\ UNCHANGED <<hgrid, elevation, temperature, salinity, pc, apc_set, afc_set, out, ccvars, tfvars, panic, restvars>>

InsertTemperature ==
    /\ \E k \in BndKeys, c \in TracerInputs :
          /\ CanInsert(temperature, k)
          /\ temperature' = mapping_insert(temperature, k, c)
    /\ UNCHANGED <<hgrid, elevation, velocity, salinity, pc, apc_set, afc_set, out, ccvars, tfvars, panic, restvars>>

InsertSalinity ==
    /\ \E k \in BndKeys, c \in TracerInputs :
          /\ CanInsert(salinity, k)
          /\ salinity' = mapping_insert(salinity, k, c)
    /\ UNCHANGED <<hgrid, elevation, velocity, temperature, pc, apc_set, afc_set, out, ccvars, tfvars, panic, restvars>>

\* the BoundaryForcingConfig and the Bctides the state holds
bfc == BoundaryForcingConfig(hgrid, elevation, velocity, temperature, salinity)

bctides ==
    Bctides(CliStartDate, Unwrap(entrypoint_run_duration(cli.run_duration).value),
            CliCutoffDepth, bfc)

\* `println!("{}", &bctides)`: Display::fmt runs on the Bctides; a Bctides that
\* was rendered can be rendered once more
Render ==
    /\ pc \in {"config", "rendered"}
    /\ panic = None
    /\ \E w \in UNION {fmt(self) : self \in {bctides}} :
           /\ out' = w.out
           /\ panic' = w.panic
           /\ apc_set' = w.apc_set
           /\ afc_set' = w.afc_set
           /\ pc' = IF w.panic # None THEN "panicked"
                    ELSE IF pc = "config" THEN "rendered" ELSE "rendered_again"
    /\ UNCHANGED <<hgrid, elevation, velocity, temperature, salinity, ccvars, tfvars, restvars>>

Next ==
    InsertElevation \/ InsertVelocity \/ InsertTemperature \/ InsertSalinity \/ Render

Spec == Init /\ [][Next]_vars

\* ---------------------------------------------------------------------
\* main.rs: the command line of the bctides binary.  An argument id is the
\* sequence of its parts, e.g. <<"elevation", "-", "1", "-", "tidal-db">>;
\* a decimal number is one part per digit.

Digits == <<"0","1","2","3","4","5","6","7","8","9">>

\* `{}` of an unsigned integer: its decimal digits
RECURSIVE to_string(_)
to_string(n) ==
    IF n < 10 THEN <<Digits[n + 1]>>
    ELSE Append(to_string(n \div 10), Digits[(n % 10) + 1])

DigitValue(c) == CHOOSE v \in 0..9 : Digits[v + 1] = c

\* str::parse::<u32> of a string of digits
RECURSIVE parse_u32(_)
parse_u32(str) ==
    IF Len(str) = 1 THEN DigitValue(str[1])
    ELSE 10 * parse_u32(SubSeq(str, 1, Len(str) - 1)) + DigitValue(str[Len(str)])

\* PossibleBoundaryVariables and str::to_lowercase on their names
PossibleBoundaryVariables == <<"Elevation", "Velocity", "Temperature", "Salinity">>

to_lowercase(variable) ==
    CASE variable = "Elevation" -> "elevation"
      [] variable = "Velocity" -> "velocity"
      [] variable = "Temperature" -> "temperature"
      [] variable = "Salinity" -> "salinity"
      [] OTHER -> variable

\* format!("{}-{}", variable.to_lowercase(), i + 1)
get_base_name(i, variable) ==
    <<to_lowercase(variable), "-">> \o to_string(i + 1)

get_tidal_db_base_name(i, variable) ==
    <<to_lowercase(variable), "-">> \o to_string(i + 1) \o <<"-", "tidal-db">>

get_all_tidal_constituents_base_name(i, variable) ==
    <<to_lowercase(variable), "-">> \o to_string(i + 1) \o <<"-", "all">>

get_major_tidal_constituents_base_name(i, variable) ==
    <<to_lowercase(variable), "-">> \o to_string(i + 1) \o <<"-", "major">>

get_minor_tidal_constituents_base_name(i, variable) ==
    <<to_lowercase(variable), "-">> \o to_string(i + 1) \o <<"-", "minor">>

get_constituent_flag_base_name(i, variable, constituent) ==
    <<to_lowercase(variable), "-">> \o to_string(i + 1) \o <<"-">> \o constituent

get_baroclinic_db_base_name(i, variable) ==
    <<to_lowercase(variable), "-">> \o to_string(i + 1) \o <<"-", "baroclinic-db">>

\* format!("elev-th-{}", i + 1)
get_elev_th_base_name(i) == <<"elev-th", "-">> \o to_string(i + 1)

\* the ids augment_args defines for open boundary i and one variable
augment_args_ids(i, variable) ==
    {get_base_name(i, variable), get_baroclinic_db_base_name(i, variable)}
    \cup (IF variable \in {"Elevation", "Velocity"}
          THEN {get_tidal_db_base_name(i, variable),
                get_all_tidal_constituents_base_name(i, variable),
                get_major_tidal_constituents_base_name(i, variable),
                get_minor_tidal_constituents_base_name(i, variable)}
               \cup {get_constituent_flag_base_name(i, variable, field_names[f]) :
                        f \in 1..Len(field_names)}
          ELSE {})
    \cup (IF variable = "Elevation" THEN {get_elev_th_base_name(i)} ELSE {})

\* the SetTrue flags among them
is_flag(id) ==
    /\ id[Len(id)] \notin {"tidal-db", "baroclinic-db"}
    /\ \E j \in 3..Len(id) : ~is_digit(id[j])

\* the <variable>-<k> an all, major, minor or constituent flag belongs to,
\* and what follows it in the flag's id
flag_owner(id) ==
    SubSeq(id, 1, Min({j \in 3..Len(id) : id[j] = "-"}) - 1)

flag_suffix(id) ==
    SubSeq(id, Min({j \in 3..Len(id) : id[j] = "-"}) + 1, Len(id))

\* conflicts_with: all, major and minor exclude each other and every
\* constituent flag of their boundary and variable
conflicts_with(id, other) ==
    /\ is_flag(id)
    /\ is_flag(other)
    /\ id # other
    /\ flag_owner(id) = flag_owner(other)
    /\ \/ flag_suffix(id) \in {<<"all">>, <<"major">>, <<"minor">>}
       \/ flag_suffix(other) \in {<<"all">>, <<"major">>, <<"minor">>}

get_elevation_bctypes_map ==
    ("1" :> "UniformTimeSeries") @@ ("2" :> "ConstantValue") @@ ("3" :> "Tides")
    @@ ("4" :> "SpaceVaryingTimeSeries")
    @@ ("5" :> "TidesAndSpaceVaryingTimeSeries") @@ ("-1" :> "EqualToZero")

get_velocity_bctypes_map ==
    ("1" :> "UniformTimeSeries") @@ ("2" :> "ConstantValue") @@ ("3" :> "Tides")
    @@ ("4" :> "SpaceVaryingTimeSeries")
    @@ ("5" :> "TidesAndSpaceVaryingTimeSeries") @@ ("-1" :> "Flather")

get_temperature_bctypes_map ==
    ("1" :> "RelaxToUniformTimeSeries") @@ ("2" :> "RelaxToConstantValue")
    @@ ("3" :> "RelaxToInitialConditions")
    @@ ("4" :> "RelaxToSpaceVaryingTimeSeries")

get_salinity_bctypes_map == get_temperature_bctypes_map

get_tidal_db_possible_values_map ==
    ("tpxo" :> "TPXO") @@ ("fes" :> "FES") @@ ("hamtide" :> "HAMTIDE")

get_baroclinic_db_possible_values_map == ("hycom" :> "HYCOM")

\* get_variable_possible_values: the keys of the variable's table of types
get_variable_possible_values(variable) ==
    CASE variable = "Elevation" -> DOMAIN get_elevation_bctypes_map
      [] variable = "Velocity" -> DOMAIN get_velocity_bctypes_map
      [] variable = "Temperature" -> DOMAIN get_temperature_bctypes_map
      [] variable = "Salinity" -> DOMAIN get_salinity_bctypes_map

\* the value_parser of an argument that takes a value: a type argument
\* accepts the keys of its table, a database argument the names of the
\* databases, elev-th (a PathBuf) every path but the empty one
value_parser_accepts(id, value) ==
    IF id[1] = "elev-th" THEN value # ""
    ELSE IF id[Len(id)] = "tidal-db"
    THEN value \in DOMAIN get_tidal_db_possible_values_map
    ELSE IF id[Len(id)] = "baroclinic-db"
    THEN value \in DOMAIN get_baroclinic_db_possible_values_map
    ELSE \E v \in 1..Len(PossibleBoundaryVariables) :
            /\ id[1] = to_lowercase(PossibleBoundaryVariables[v])
            /\ value \in get_variable_possible_values(PossibleBoundaryVariables[v])

\* a word of the command line as clap reads it: `--<id>`, `--<id>=<value>`,
\* or a word that does not begin with two hyphens
Long(id) == [long |-> Some(id), value |-> None]
LongEq(id, value) == [long |-> Some(id), value |-> Some(value)]
Word(value) == [long |-> None, value |-> Some(value)]

\* a word that begins with one hyphen is read as short flags, a negative
\* number too (no argument allows hyphen values or negative numbers); of
\* the words of the model that is -1, and the command has no short flag 1
to_short(value) == value \in {"-1"}

\* clap's Parser and ArgMatcher while it parses: whether the command was
\* built with ignore_errors(true), the arguments matched so far with their
\* value (None when the argument was started without one), the option
\* whose value is still pending, and the error that ended the parse
ArgMatcher(ignore_errors, matcher, pending, err) ==
    [ignore_errors |-> ignore_errors, matcher |-> matcher,
     pending |-> pending, err |-> err]

Pending(id, raw_vals) == [id |-> id, raw_vals |-> raw_vals]

remove(matcher, id) == [x \in DOMAIN matcher \ {id} |-> matcher[x]]

\* Parser::verify_num_args: an option without a value is refused, unless
\* the command ignores errors
verify_num_args(self, id, raw_vals) ==
    self.ignore_errors \/ is_flag(id) \/ raw_vals # <<>>

\* Parser::react for ArgAction::Set and ArgAction::SetTrue: the number of
\* values is verified, then an argument that was matched before is removed
\* and is a conflict with itself, then the argument is started and its
\* values, if it has any, are parsed
react(self, id, raw_vals) ==
    IF ~verify_num_args(self, id, raw_vals)
    THEN ArgMatcher(self.ignore_errors, self.matcher, None, Some("InvalidValue"))
    ELSE IF id \in DOMAIN self.matcher
    THEN ArgMatcher(self.ignore_errors, remove(self.matcher, id), None, Some("ArgumentConflict"))
    ELSE IF is_flag(id)
    THEN ArgMatcher(self.ignore_errors, self.matcher @@ (id :> Some(TRUE)), None, None)
    ELSE IF raw_vals = <<>>
    THEN ArgMatcher(self.ignore_errors, self.matcher @@ (id :> None), None, None)
    ELSE IF ~value_parser_accepts(id, raw_vals[1])
    THEN ArgMatcher(self.ignore_errors, self.matcher @@ (id :> None), None, Some("InvalidValue"))
    ELSE ArgMatcher(self.ignore_errors, self.matcher @@ (id :> Some(raw_vals[1])), None, None)

\* Parser::resolve_pending: the option that waited for its value reacts
resolve_pending(self) ==
    IF self.pending = None THEN self
    ELSE react(self, Unwrap(self.pending).id, Unwrap(self.pending).raw_vals)

\* the error that ends the parse at a word clap cannot place: the pending
\* option is resolved first and its own error dropped
start_error(self, kind) ==
    ArgMatcher(self.ignore_errors, resolve_pending(self).matcher, None, Some(kind))

\* Parser::parse_long_arg: an id the command does not define is unknown; an
\* option reacts to the value attached to it or waits for the next word; a
\* flag with a value attached has too many values
parse_long_arg(defined, self, long_arg, long_value) ==
    IF long_arg \notin defined THEN start_error(self, "UnknownArgument")
    ELSE IF is_flag(long_arg) /\ long_value # None
    THEN start_error(self, "TooManyValues")
    ELSE IF resolve_pending(self).err # None THEN resolve_pending(self)
    ELSE IF is_flag(long_arg) THEN react(resolve_pending(self), long_arg, <<>>)
    ELSE IF long_value # None
    THEN react(resolve_pending(self), long_arg, <<Unwrap(long_value)>>)
    ELSE ArgMatcher(self.ignore_errors, resolve_pending(self).matcher, Some(Pending(long_arg, <<>>)), None)

\* a word that is no long argument: short flags the command does not have,
\* or the value of the option that waits for one, or a positional beyond
\* the two of the command (the mesh and the start date)
parse_word(self, value) ==
    IF to_short(value) THEN start_error(self, "UnknownArgument")
    ELSE IF self.pending # None /\ Unwrap(self.pending).raw_vals = <<>>
    THEN ArgMatcher(self.ignore_errors, self.matcher, Some(Pending(Unwrap(self.pending).id, <<value>>)), None)
    ELSE start_error(self, "UnknownArgument")

\* one turn of the loop of Parser::parse; the first error ends the parse
parse_arg(defined, self, arg_os) ==
    IF self.err # None THEN self
    ELSE IF arg_os.long # None
    THEN parse_long_arg(defined, self, Unwrap(arg_os.long), arg_os.value)
    ELSE parse_word(self, Unwrap(arg_os.value))

\* Parser::get_matches_with on the boundary arguments of the command line:
\* the loop over the words, then the pending option is resolved
get_matches_with(defined, raw_args, ignore_errors) ==
    CHOOSE result \in
        {IF self.err # None THEN self ELSE resolve_pending(self) :
            self \in {Loop(LAMBDA matcher, j : parse_arg(defined, matcher, raw_args[j]),
                           ArgMatcher(ignore_errors, <<>>, None, None), 1, Len(raw_args))}} : TRUE

\* tmpcmd.get_matches() with ignore_errors, then get_one(base_name): the
\* value of the type argument in what clap had matched when the parse ended
ignore_errors_get_one(defined, raw_args, base_name) ==
    CHOOSE argument_value \in
        {IF base_name \in DOMAIN self.matcher THEN self.matcher[base_name] ELSE None :
            self \in {get_matches_with(defined, raw_args, TRUE)}} : TRUE

\* the turns (slots) of the two loops of augment_args on a mesh with n open
\* boundaries: boundary i and the v-th variable
augment_args_slots(n) == (0..(n - 1)) \X (1..Len(PossibleBoundaryVariables))

\* the ids the command has when augment_args has added the type argument of
\* boundary i and the v-th variable
ids_with_base_name(i, v) ==
    UNION {augment_args_ids(slot[1], PossibleBoundaryVariables[slot[2]]) :
             slot \in {t \in augment_args_slots(i + 1) : t[1] < i \/ t[2] < v}}
    \cup {get_base_name(i, PossibleBoundaryVariables[v])}

\* the same per turn, for the meshes of the model
tmpcmd_ids ==
    [slot \in augment_args_slots(MaxOpenBnd) |-> ids_with_base_name(slot[1], slot[2])]

\* .required(is_required_flag) of the ids of boundary i and the v-th
\* variable: the tidal database with type 3 or 5, the baroclinic database
\* with type 4 or 5, elev-th with type 1, as far as the type argument is
\* matched when the argument is added
required_ids(i, v, raw_args) ==
    LET variable == PossibleBoundaryVariables[v]
    IN  CHOOSE required \in
          {(IF variable \in {"Elevation", "Velocity"}
                 /\ argument_value \in {Some("3"), Some("5")}
            THEN {get_tidal_db_base_name(i, variable)} ELSE {})
           \cup (IF argument_value \in {Some("4"), Some("5")}
                 THEN {get_baroclinic_db_base_name(i, variable)} ELSE {})
           \cup (IF variable = "Elevation" /\ argument_value = Some("1")
                 THEN {get_elev_th_base_name(i)} ELSE {}) :
             argument_value \in {ignore_errors_get_one(tmpcmd_ids[<<i, v>>], raw_args,
                                                       get_base_name(i, variable))}} : TRUE

\* augment_args: the arguments of a mesh with n open boundaries when the
\* command line reads raw_args; each is required or not
augment_args(n, raw_args) ==
    CHOOSE cmd \in
        {[id \in defined |-> [required |-> id \in required]] :
            defined \in {UNION {tmpcmd_ids[slot] : slot \in augment_args_slots(n)}
                           \cup augment_args_ids(n - 1, "Salinity")},
            required \in {UNION {required_ids(slot[1], slot[2], raw_args) :
                                    slot \in augment_args_slots(n)}}} : TRUE

\* Validator::validate and the defaults: two arguments of the command line
\* that conflict, then a required argument that is missing; else the
\* ArgMatches, in which an option that was not written has no value and a
\* SetTrue flag that was not written is false
validated(cmd, matcher) ==
    IF \E id \in DOMAIN matcher, other \in DOMAIN matcher : conflicts_with(id, other)
    THEN Err("ArgumentConflict")
    ELSE IF \E id \in DOMAIN cmd : cmd[id].required /\ id \notin DOMAIN matcher
    THEN Err("MissingRequiredArgument")
    ELSE Ok([id \in DOMAIN cmd |->
                IF id \in DOMAIN matcher THEN matcher[id]
                ELSE IF is_flag(id) THEN Some(FALSE)
                ELSE None])

\* Command::get_matches of Cli::parse: the error of the parse, or of the
\* validation, or the ArgMatches
get_matches(cmd, raw_args) ==
    CHOOSE result \in
        {IF self.err # None THEN Err(Unwrap(self.err)) ELSE validated(cmd, self.matcher) :
            self \in {get_matches_with(DOMAIN cmd, raw_args, FALSE)}} : TRUE

\* clap: panic!("Mismatch between definition and access of {id}. ..")
mismatch_message(id) ==
    PanicMessage(<<"Mismatch", "between", "definition", "and", "access", "of">>, <<id>>)

\* ArgMatches::get_one: the value of a defined argument, if it has one; on
\* an id that no argument has, a build with debug assertions panics and a
\* build without them returns None
get_one(arg_matches, id) ==
    IF id \in DOMAIN arg_matches THEN Returned(arg_matches[id])
    ELSE IF debug_assertions THEN Panicked(mismatch_message(id))
    ELSE Returned(None)

\* get_one(..).unwrap()
get_one_unwrap(arg_matches, id) ==
    LET got == get_one(arg_matches, id)
    IN  IF got.panic # None THEN got
        ELSE IF Unwrap(got.value) = None THEN Panicked(unwrap_panic_message)
        ELSE Returned(Unwrap(Unwrap(got.value)))

\* ArgMatches::ids: the arguments that have a value
ids(arg_matches) == {id \in DOMAIN arg_matches : arg_matches[id] # None}

\* Regex "<variable>-(\d+)$" on an id: the digits it captures, if it matches
captures(variable, key_str) ==
    LET starts == {i \in 1..(Len(key_str) - 2) :
                     /\ key_str[i] = variable
                     /\ key_str[i + 1] = "-"
                     /\ \A j \in (i + 2)..Len(key_str) : is_digit(key_str[j])}
    IN  IF starts = {} THEN None
        ELSE Some(SubSeq(key_str, Min(starts) + 2, Len(key_str)))

\* panic!("Unhandled type: {:?}", the_requested_type)
unhandled_type_message(the_requested_type) ==
    PanicMessage(<<"Unhandled", "type:">>, <<the_requested_type>>)

\* panic!("Unreachable!") and panic!("Unreachable")
unreachable_bang_message == PanicMessage(<<"Unreachable!">>, <<>>)
unreachable_message == PanicMessage(<<"Unreachable">>, <<>>)

\* the constituents of get_elevation_config and get_velocity_config: the
\* all, major and minor flags named with fort_id, else the constituent flags
\* named with bnd_key + 1; the first get_one(..).unwrap() that panics ends it
cli_constituents(arg_matches, variable, fort_id, bnd_key) ==
    LET select_id(suffix) == <<variable, "-">> \o fort_id \o <<"-", suffix>>
        all_major_minor ==
            <<get_one_unwrap(arg_matches, select_id("all")),
              get_one_unwrap(arg_matches, select_id("major")),
              get_one_unwrap(arg_matches, select_id("minor"))>>
        flag(f) == get_one_unwrap(arg_matches,
                      get_constituent_flag_base_name(bnd_key, variable, field_names[f]))
        panicked_select == {j \in 1..3 : all_major_minor[j].panic # None}
        panicked_flag == {f \in 1..Len(field_names) : flag(f).panic # None}
    IN  IF panicked_select # {} THEN all_major_minor[Min(panicked_select)]
        ELSE LET selected == [j \in 1..3 |-> Unwrap(all_major_minor[j].value)]
             IN  CASE selected = <<TRUE, FALSE, FALSE>> -> Returned(ConstituentsConfig_all)
                   [] selected = <<FALSE, TRUE, FALSE>> -> Returned(ConstituentsConfig_major)
                   [] selected = <<FALSE, FALSE, TRUE>> -> Returned(ConstituentsConfig_minor)
                   [] selected = <<FALSE, FALSE, FALSE>> ->
                        IF panicked_flag # {} THEN flag(Min(panicked_flag))
                        ELSE LET on(f) == Unwrap(flag(f).value)
                                 named == [j \in 1..Len(field_names) |-> j]
                                 chosen == SelectSeq(named, on)
                             IN  Returned(set_all_by_name(ConstituentsConfig_default,
                                    [j \in 1..Len(chosen) |-> field_names[chosen[j]]], 1))
                   [] OTHER -> Panicked(unreachable_bang_message)

\* `match matches.get_one::<String>(id) { Some(db) => match map.get(db) {
\* Some(..) => .., None => panic!("Unreachable!") }, None => panic!("Unreachable") }`
cli_database(arg_matches, id, possible_values_map) ==
    LET got == get_one(arg_matches, id)
    IN  IF got.panic # None THEN got
        ELSE IF Unwrap(got.value) = None THEN Panicked(unreachable_message)
        ELSE IF Unwrap(Unwrap(got.value)) \notin DOMAIN possible_values_map
        THEN Panicked(unreachable_bang_message)
        ELSE Returned(possible_values_map[Unwrap(Unwrap(got.value))])

\* get_elevation_config and get_velocity_config, which differ in the name of
\* the variable and in the table of types
cli_tides_config(arg_matches, variable, bctypes_map, key_str, fort_id, bnd_key) ==
    LET user_value == get_one_unwrap(arg_matches, key_str)
    IN  IF user_value.panic # None THEN user_value
        ELSE IF Unwrap(user_value.value) \notin DOMAIN bctypes_map
        THEN Panicked(unwrap_panic_message)
        ELSE IF bctypes_map[Unwrap(user_value.value)] # "TidesAndSpaceVaryingTimeSeries"
        THEN Panicked(unhandled_type_message(bctypes_map[Unwrap(user_value.value)]))
        ELSE LET constituents == cli_constituents(arg_matches, variable, fort_id, bnd_key)
                 tidal_db == cli_database(arg_matches,
                                <<variable, "-">> \o fort_id \o <<"-", "tidal-db">>,
                                get_tidal_db_possible_values_map)
                 baroclinic_db == cli_database(arg_matches,
                                <<variable, "-">> \o fort_id \o <<"-", "baroclinic-db">>,
                                get_baroclinic_db_possible_values_map)
             IN  IF constituents.panic # None THEN constituents
                 ELSE IF tidal_db.panic # None THEN tidal_db
                 ELSE IF baroclinic_db.panic # None THEN baroclinic_db
                 ELSE Returned([variant |-> "TidesAndSpaceVaryingTimeSeries",
                           tides |-> TidesConfig(Unwrap(constituents.value),
                                                 Unwrap(tidal_db.value)),
                           time_series |-> [database |-> Unwrap(baroclinic_db.value)]])

get_elevation_config(arg_matches, key_str, fort_id, bnd_key) ==
    cli_tides_config(arg_matches, "elevation", get_elevation_bctypes_map,
                     key_str, fort_id, bnd_key)

get_velocity_config(arg_matches, key_str, fort_id, bnd_key) ==
    cli_tides_config(arg_matches, "velocity", get_velocity_bctypes_map,
                     key_str, fort_id, bnd_key)

\* get_temperature_config and get_salinity_config: every type is unhandled
cli_tracer_config(arg_matches, bctypes_map, key_str) ==
    LET user_value == get_one_unwrap(arg_matches, key_str)
    IN  IF user_value.panic # None THEN user_value
        ELSE IF Unwrap(user_value.value) \notin DOMAIN bctypes_map
        THEN Panicked(unwrap_panic_message)
        ELSE Panicked(unhandled_type_message(bctypes_map[Unwrap(user_value.value)]))

get_temperature_config(arg_matches, key_str, fort_id, bnd_key) ==
    cli_tracer_config(arg_matches, get_temperature_bctypes_map, key_str)

get_salinity_config(arg_matches, key_str, fort_id, bnd_key) ==
    cli_tracer_config(arg_matches, get_salinity_bctypes_map, key_str)

get_variable_config(variable, arg_matches, key_str, fort_id, bnd_key) ==
    CASE variable = "elevation" -> get_elevation_config(arg_matches, key_str, fort_id, bnd_key)
      [] variable = "velocity" -> get_velocity_config(arg_matches, key_str, fort_id, bnd_key)
      [] variable = "temperature" -> get_temperature_config(arg_matches, key_str, fort_id, bnd_key)
      [] variable = "salinity" -> get_salinity_config(arg_matches, key_str, fort_id, bnd_key)

\* faulty variant: the boundary key is the number in the argument's name
bnd_key_of_one_based(fort_id) == parse_u32(fort_id)

\* fort_id.parse::<u32>().unwrap() - 1
bnd_key_of(fort_id) == parse_u32(fort_id) - 1

\* from_arg_matches_mut for one variable: the keys of the arguments the
\* variable's regex matches, the map of their configs, and the panic of each
\* key whose config panics
variable_map(arg_matches, variable) ==
    LET keys == {key \in ids(arg_matches) : captures(variable, key) # None}
        configs == [key \in keys |->
                      LET fort_id == Unwrap(captures(variable, key))
                          bnd_key == bnd_key_of(fort_id)
                      IN  [bnd_key |-> bnd_key,
                           config |-> get_variable_config(variable, arg_matches, key,
                                                          fort_id, bnd_key)]]
    IN  [map |-> [k \in {configs[key].bnd_key :
                            key \in {x \in keys : configs[x].config.panic = None}} |->
                    LET key == CHOOSE x \in keys : configs[x].bnd_key = k
                    IN  Unwrap(configs[key].config.value)],
         panics |-> [key \in {x \in keys : configs[x].config.panic # None} |->
                        Unwrap(configs[key].config.panic)]]

\* `if map.is_empty() { None } else { Some(map) }`
some_unless_empty(map) == IF DOMAIN map = {} THEN None ELSE Some(map)

\* the loop of from_arg_matches_mut over matches.ids(), which come in the
\* order the arguments are written: the first key whose config panics ends
\* it, else the four maps are returned
from_variable_maps(maps, raw_args) ==
    LET panicking == UNION {DOMAIN maps[variable].panics : variable \in DOMAIN maps}
        written == SelectSeq(raw_args, LAMBDA arg_os : arg_os.long # None)
        first == CHOOSE j \in 1..Len(written) :
                    /\ Unwrap(written[j].long) \in panicking
                    /\ \A k \in 1..(j - 1) : Unwrap(written[k].long) \notin panicking
        key == Unwrap(written[first].long)
        variable == CHOOSE x \in DOMAIN maps : key \in DOMAIN maps[x].panics
    IN  IF panicking = {}
        THEN Returned([x \in DOMAIN maps |-> some_unless_empty(maps[x].map)])
        ELSE Panicked(maps[variable].panics[key])

from_arg_matches_mut(arg_matches, args) ==
    CHOOSE result \in
        {from_variable_maps(maps, args) :
            maps \in {[variable \in {"elevation", "velocity", "temperature", "salinity"} |->
                          variable_map(arg_matches, variable)]}} : TRUE

\* what Cli::parse comes to once clap has matched the command line: the
\* clap error, or the matches with what from_arg_matches_mut returns or panics
from_get_matches(arg_matches, args) ==
    IF arg_matches.err # None
    THEN [matches |-> <<>>, error |-> arg_matches.err, config |-> None, panic |-> None]
    ELSE CHOOSE result \in
            {[matches |-> Unwrap(arg_matches.ok), error |-> None,
              config |-> config.value, panic |-> config.panic] :
                config \in {from_arg_matches_mut(Unwrap(arg_matches.ok), args)}} : TRUE

\* Cli::parse: the command of augment_args matches the command line; a
\* command line clap accepts goes through from_arg_matches_mut
Cli_parse(n, args) ==
    CHOOSE result \in
        {from_get_matches(arg_matches, args) :
            arg_matches \in {get_matches(cmd, args) : cmd \in {augment_args(n, args)}}} : TRUE

\* an option as written: --<id>=<value>, or --<id> <value>
option(id, value, attached) ==
    IF attached THEN <<LongEq(id, value)>> ELSE <<Long(id), Word(value)>>

\* what a command line writes for one boundary and variable: the type, the
\* tidal database, one of all, major and minor, constituent flags, the
\* baroclinic database and the elev.th path, each present or not, the type
\* argument before or after the others, the values attached with `=` or not
Choice(type, select, flags, db, baroclinic_db, elev_th, type_last, attached) ==
    [type |-> type, select |-> select, flags |-> flags, db |-> db,
     baroclinic_db |-> baroclinic_db, elev_th |-> elev_th, type_last |-> type_last,
     attached |-> attached]

\* the command lines that name a type with everything it goes with
CliChoices ==
    { Choice("5", Some("all"), {}, Some("tpxo"), Some("hycom"), FALSE, FALSE, FALSE),
      Choice("5", Some("major"), {}, Some("fes"), Some("hycom"), FALSE, FALSE, TRUE),
      Choice("5", Some("minor"), {}, Some("tpxo"), Some("hycom"), FALSE, FALSE, FALSE),
      Choice("5", None, { <<"K","1">>, <<"_","2","N","2">> },
             Some("hamtide"), Some("hycom"), FALSE, FALSE, TRUE),
      Choice("3", None, { <<"M","2">> }, Some("tpxo"), Some("hycom"), FALSE, FALSE, FALSE) }

\* the command lines at the edges: type 1 with and without --elev-th, type 5
\* without its tidal database, all together with a constituent flag, a type
\* that is no key of the table, type 5 written after --<variable>-<k>-all
\* without any database, and the type -1 attached with `=`
CliEdgeChoices ==
    { Choice("1", None, {}, None, None, TRUE, FALSE, FALSE),
      Choice("1", None, {}, None, None, FALSE, FALSE, TRUE),
      Choice("5", Some("all"), {}, None, Some("hycom"), FALSE, FALSE, FALSE),
      Choice("5", Some("all"), { <<"M","2">> }, Some("tpxo"), Some("hycom"), FALSE, FALSE, TRUE),
      Choice("7", None, {}, None, None, FALSE, FALSE, FALSE),
      Choice("5", Some("all"), {}, None, None, FALSE, TRUE, FALSE),
      Choice("5", Some("all"), {}, Some("tpxo"), None, FALSE, TRUE, TRUE),
      Choice("-1", None, {}, None, None, FALSE, FALSE, TRUE) }

\* the words one choice writes for boundary i and a variable
given(i, variable, choice) ==
    LET type == option(get_base_name(i, variable), choice.type, choice.attached)
        db == IF choice.db = None THEN <<>>
              ELSE option(get_tidal_db_base_name(i, variable), Unwrap(choice.db),
                          choice.attached)
        select == IF choice.select = None THEN <<>>
                  ELSE <<Long(<<to_lowercase(variable), "-">> \o to_string(i + 1)
                                \o <<"-", Unwrap(choice.select)>>)>>
        flags == [j \in 1..Len(SelectSeq(field_names, LAMBDA c : c \in choice.flags)) |->
                    Long(get_constituent_flag_base_name(i, variable,
                            SelectSeq(field_names, LAMBDA c : c \in choice.flags)[j]))]
        baroclinic_db == IF choice.baroclinic_db = None THEN <<>>
                         ELSE option(get_baroclinic_db_base_name(i, variable),
                                     Unwrap(choice.baroclinic_db), choice.attached)
        elev_th == IF choice.elev_th /\ variable = "Elevation"
                   THEN option(get_elev_th_base_name(i), "elev.th", choice.attached)
                   ELSE <<>>
        others == db \o select \o flags \o baroclinic_db \o elev_th
    IN  IF choice.type_last THEN others \o type ELSE type \o others

\* command lines clap reads otherwise than they look, for boundary i and a
\* variable of a mesh with n open boundaries: the type -1 as a word of its
\* own, the type given twice, a flag given twice, a flag with a value
\* attached and with a value after it, the type without a value at the end
\* and before a flag, an argument of a boundary the mesh does not have after
\* a type that is no key of the table, an empty elev.th path, and the type
\* or the elev.th path without a value before the type of the next variable
CliEdgeLines(n, i, variable) ==
    LET base_name == get_base_name(i, variable)
        all == get_all_tidal_constituents_base_name(i, variable)
        following == get_base_name(i, IF variable = "Elevation" THEN "Velocity"
                                      ELSE "Temperature")
    IN  { <<Long(base_name), LongEq(following, "3")>>,
          <<LongEq(base_name, "1"), Long(get_elev_th_base_name(i)),
            LongEq(following, "3")>>,
          <<Long(base_name), Word("-1")>>,
          <<Long(base_name), Word("5"), Long(base_name), Word("7")>>,
          <<LongEq(base_name, "5"), Long(all), Long(all)>>,
          <<LongEq(base_name, "5"), LongEq(all, "true")>>,
          <<LongEq(base_name, "5"), Long(all), Word("true")>>,
          <<Long(base_name)>>,
          <<Long(base_name), Long(all)>>,
          <<Long(base_name), Word("7"), LongEq(get_base_name(n, variable), "5")>>,
          <<LongEq(base_name, "1"), LongEq(get_elev_th_base_name(i), "")>> }

RECURSIVE given_all(_, _)
given_all(slots, choices) ==
    IF slots = <<>> THEN <<>>
    ELSE LET slot == Head(slots)
             rest == given_all(Tail(slots), choices)
         IN  IF choices[slot] = None THEN rest
             ELSE given(slot[1], slot[2], Unwrap(choices[slot])) \o rest

\* the tidal slots of a mesh with n open boundaries, in the order of their
\* definition
CliSlots(n) ==
    IF n = 1 THEN << <<0, "Elevation">>, <<0, "Velocity">> >>
    ELSE << <<0, "Elevation">>, <<0, "Velocity">>,
            <<1, "Elevation">>, <<1, "Velocity">> >>

\* --temperature-1 1, --salinity-1=2, or neither
CliTracerInputs ==
    { <<>>,
      option(get_base_name(0, "Temperature"), "1", FALSE),
      option(get_base_name(0, "Salinity"), "2", TRUE) }

\* --run-duration 10days, 300000000years and 292271023046years
CliRunDurationInputs ==
    { CliRunDuration,
      StdDuration(U64(0, 9467280, 0), 0),
      StdDuration(U64(9, 223372036, 876449600), 0) }

\* the command lines of a mesh with n open boundaries: every combination of
\* the full choices on the tidal slots with a tracer, for a run of ten days,
\* every single choice, the edges included, with every run duration, and
\* the edge lines
CliInputs(n) ==
    {Cli(given_all(CliSlots(n), choices) \o tracer, CliRunDuration) :
        choices \in [Range(CliSlots(n)) -> {None} \cup {Some(c) : c \in CliChoices}],
        tracer \in CliTracerInputs}
    \cup {Cli(given(slot[1], slot[2], choice), run_duration) :
            slot \in Range(CliSlots(n)),
            choice \in CliChoices \cup CliEdgeChoices,
            run_duration \in CliRunDurationInputs}
    \cup {Cli(line, CliRunDuration) :
            line \in UNION {CliEdgeLines(n, slot[1], slot[2]) : slot \in Range(CliSlots(n))}}

InitCli ==
    /\ CCIdle
    /\ TFIdle
    /\ NoPanic
    /\ BBIdle /\ SZIdle /\ NHCIdle
    /\ \E n \in 1..MaxOpenBnd :
          /\ hgrid = Some(Mesh(n))
          /\ cli \in CliInputs(n)
    /\ debug_assertions \in BOOLEAN
    /\ matches = <<>>
    /\ cli_error = None
    /\ elevation = None
    /\ velocity = None
    /\ temperature = None
    /\ salinity = None
    /\ pc = "cli"
    /\ apc_set = None
    /\ afc_set = None
    /\ out = <<>>

\* Cli::parse, which runs augment_args, clap and from_arg_matches_mut: clap
\* rejects the command line and the process exits, or from_arg_matches_mut
\* panics, or entrypoint has the four maps, which it hands to the
\* BoundaryForcingConfigBuilder
FromArgMatches ==
    /\ pc = "cli"
    /\ panic = None
    /\ \E parsed \in {Cli_parse(Len(Unwrap(hgrid)), cli.args)} :
         /\ matches' = parsed.matches
         /\ cli_error' = parsed.error
         /\ panic' = parsed.panic
         /\ IF parsed.config = None
            THEN /\ pc' = IF parsed.error # None THEN "rejected" ELSE "panicked"
                 /\ UNCHANGED <<elevation, velocity, temperature, salinity>>
            ELSE /\ elevation' = Unwrap(parsed.config)["elevation"]
                 /\ velocity' = Unwrap(parsed.config)["velocity"]
                 /\ temperature' = Unwrap(parsed.config)["temperature"]
                 /\ salinity' = Unwrap(parsed.config)["salinity"]
                 /\ pc' = "parsed"
    /\ UNCHANGED <<hgrid, apc_set, afc_set, out, cli, debug_assertions, ccvars, tfvars, bbvars, szvars, nhcvars>>

\* entrypoint between Cli::parse and println!: the BoundaryForcingConfig is
\* built, the run duration converted, which can panic, and the Bctides built
BuildBctides ==
    /\ pc = "parsed"
    /\ panic = None
    /\ panic' = entrypoint_run_duration(cli.run_duration).panic
    /\ pc' = IF entrypoint_run_duration(cli.run_duration).panic # None
             THEN "panicked" ELSE "config"
    /\ UNCHANGED <<hgrid, elevation, velocity, temperature, salinity, apc_set, afc_set, out,
                   ccvars, tfvars, restvars>>

NextCli == FromArgMatches \/ BuildBctides \/ Render

SpecCli == InitCli /\ [][NextCli]_vars

\* ---------------------------------------------------------------------
\* bctides.rs: BctidesBuilder.  An f64 is a number or NaN.

F64(v) == [nan |-> FALSE, val |-> v]
NaN == [nan |-> TRUE, val |-> 0]

\* f64 `<`: false when either side is NaN
f64_lt(x, y) == ~x.nan /\ ~y.nan /\ x.val < y.val

\* BctidesBuilderError
UninitializedFieldError(field) == [error |-> "UninitializedFieldError", field |-> field]
InvalidTidalPotentialCutoffDepth ==
    [error |-> "InvalidTidalPotentialCutoffDepth", field |-> ""]

\* #[derive(Default)]: the four fields are None
BctidesBuilder_default ==
    [start_date |-> None, run_duration |-> None,
     tidal_potential_cutoff_depth |-> None, boundary_forcing_config |-> None]

\* if tidal_potential_cutoff_depth < &0. { return Err(..) } Ok(())
validate_tidal_potential_cutoff_depth(tidal_potential_cutoff_depth) ==
    IF f64_lt(tidal_potential_cutoff_depth, F64(0))
    THEN Err(InvalidTidalPotentialCutoffDepth)
    ELSE Ok(<<>>)

validate(tidal_potential_cutoff_depth) ==
    validate_tidal_potential_cutoff_depth(tidal_potential_cutoff_depth)

\* BctidesBuilder::build: the four ok_or_else(..)? in order, then validate
BctidesBuilder_build(self) ==
    IF self.start_date = None
    THEN Err(UninitializedFieldError("start_date"))
    ELSE IF self.run_duration = None
    THEN Err(UninitializedFieldError("run_duration"))
    ELSE IF self.tidal_potential_cutoff_depth = None
    THEN Err(UninitializedFieldError("tidal_potential_cutoff_depth"))
    ELSE IF self.boundary_forcing_config = None
    THEN Err(UninitializedFieldError("boundary_forcing_config"))
    ELSE IF validate(Unwrap(self.tidal_potential_cutoff_depth)).err # None
    THEN validate(Unwrap(self.tidal_potential_cutoff_depth))
    ELSE Ok(Bctides(Unwrap(self.start_date), Unwrap(self.run_duration),
                    Unwrap(self.tidal_potential_cutoff_depth),
                    Unwrap(self.boundary_forcing_config)))

\* the arguments of the setters
BuilderStartDateInputs ==
    {CliStartDate,
     [year |-> 1905, ordinal |-> 1, hour |-> 12, minute |-> 0, second |-> 0]}
BuilderRunDurationInputs == {Duration(864000, 0), Duration(7200, 0)}
BuilderCutoffDepthInputs == {F64(-1), F64(0), F64(50), NaN}
BuilderConfigInputs ==
    {BoundaryForcingConfig(Some(Mesh(1)), None, None, None, None),
     BoundaryForcingConfig(Some(Mesh(2)),
        Some(0 :> [variant |-> "Tides",
                   tides |-> TidesConfig(ConstituentsConfig_major, "TPXO")]),
        None, None, None)}

InitBuilder ==
    /\ CCIdle /\ BCIdle /\ TFIdle /\ NoPanic
    /\ CLIIdle /\ SZIdle /\ NHCIdle
    /\ builder = BctidesBuilder_default
    /\ built = None

\* a setter stores Some(argument) in its field; the result of an earlier
\* build() is dropped
BuilderSet(field, value) ==
    /\ builder' = [builder EXCEPT ![field] = Some(value)]
    /\ built' = None
    /\ UNCHANGED <<ccvars, bcvars, tfvars, panic, clivars, szvars, nhcvars>>

BuilderStartDate ==
    \E start_date \in BuilderStartDateInputs : BuilderSet("start_date", start_date)

BuilderRunDuration ==
    \E run_duration \in BuilderRunDurationInputs :
        BuilderSet("run_duration", run_duration)

BuilderTidalPotentialCutoffDepth ==
    \E tidal_potential_cutoff_depth \in BuilderCutoffDepthInputs :
        BuilderSet("tidal_potential_cutoff_depth", tidal_potential_cutoff_depth)

BuilderBoundaryForcingConfig ==
    \E boundary_forcing_config \in BuilderConfigInputs :
        BuilderSet("boundary_forcing_config", boundary_forcing_config)

\* build(&self)
BuilderBuild ==
    /\ built' = Some(BctidesBuilder_build(builder))
    /\ UNCHANGED <<builder, ccvars, bcvars, tfvars, panic, clivars, szvars, nhcvars>>

NextBuilder ==
    \/ BuilderStartDate \/ BuilderRunDuration \/ BuilderTidalPotentialCutoffDepth
    \/ BuilderBoundaryForcingConfig \/ BuilderBuild

SpecBuilder == InitBuilder /\ [][NextBuilder]_vars

\* ---------------------------------------------------------------------
\* schismrs-vgrid sz.rs: SZBuilder.  The mesh is seen through the array
\* of its node depths.

\* f64 `<=` and `>`: false when either side is NaN
f64_le(x, y) == ~x.nan /\ ~y.nan /\ x.val <= y.val
f64_gt(x, y) == ~x.nan /\ ~y.nan /\ x.val > y.val

\* SZBuilderError
SZBuilderError(variant, args) == [error |-> variant, args |-> args]

\* #[derive(Default)]: the six fields are None
SZBuilder_default ==
    [hgrid |-> None, slevels |-> None, zlevels |-> None,
     theta_b |-> None, theta_f |-> None, critical_depth |-> None]

\* if !(0.0 <= *theta_b && *theta_b <= 1.0) { return Err(..) } Ok(())
validate_theta_b(theta_b) ==
    IF ~(f64_le(F64(0), theta_b) /\ f64_le(theta_b, F64(1)))
    THEN Err(SZBuilderError("InvalidThetaB", <<theta_b>>))
    ELSE Ok(<<>>)

\* if *critical_depth < 5. { return Err(..) } Ok(())
validate_critical_depth(critical_depth) ==
    IF f64_lt(critical_depth, F64(5))
    THEN Err(SZBuilderError("InvalidCriticalDepth", <<critical_depth>>))
    ELSE Ok(<<>>)

\* if !(*theta_f >= 0.) { return Err(..) } Ok(())
validate_theta_f(theta_f) ==
    IF ~f64_le(F64(0), theta_f)
    THEN Err(SZBuilderError("InvalidThetaF", <<theta_f>>))
    ELSE Ok(<<>>)

\* zlevels[0] on an empty Vec
index_out_of_bounds(len, index) ==
    PanicMessage("index out of bounds: the len is {} but the index is {}",
                 <<len, index>>)

\* validate_z_levels: all `<= 0.0`; windows(2) all increasing when there
\* are two or more; then zlevels[0], which panics on an empty Vec
validate_z_levels(deepest_point, zlevels) ==
    IF ~(\A i \in 1..Len(zlevels) : f64_le(zlevels[i], F64(0)))
    THEN Returned(Err(SZBuilderError("InvalidZLevels", <<>>)))
    ELSE IF Len(zlevels) > 1
            /\ ~(\A i \in 1..(Len(zlevels) - 1) : f64_lt(zlevels[i], zlevels[i + 1]))
    THEN Returned(Err(SZBuilderError("InvalidZLevels", <<>>)))
    ELSE IF Len(zlevels) = 0
    THEN Panicked(index_out_of_bounds(0, 0))
    ELSE IF f64_gt(zlevels[1], deepest_point)
    THEN Returned(Err(SZBuilderError("InvalidZLevelsValues",
                                     <<deepest_point, zlevels[1]>>)))
    ELSE Returned(Ok(<<>>))

\* ndarray_stats min(): no element, or an element that has no order
depths_min(depths) ==
    IF Len(depths) = 0
    THEN Err(SZBuilderError("MinMaxError", <<"EmptyInput">>))
    ELSE IF \E i \in 1..Len(depths) : depths[i].nan
    THEN Err(SZBuilderError("MinMaxError", <<"UndefinedOrder">>))
    ELSE Ok(CHOOSE d \in Range(depths) : \A e \in Range(depths) : d.val <= e.val)

\* Array::linspace(-1., 0., n): n evenly spaced values, as fractions
linspace_minus_one_to_zero(n) ==
    [i \in 1..n |-> [num |-> IF n = 1 THEN -1 ELSE i - n,
                     den |-> IF n = 1 THEN 1 ELSE n - 1]]

SZ(sigma, z_array, theta_f, theta_b, hc) ==
    [sigma |-> sigma, z_array |-> z_array, theta_f |-> theta_f,
     theta_b |-> theta_b, hc |-> hc]

\* build(), from the z-levels on: the deepest point alone when none were
\* given, else the validated levels
SZBuilder_build_levels(self, deepest_point) ==
    LET sigma == linspace_minus_one_to_zero(Unwrap(self.slevels))
        made(z_array) ==
            SZ(sigma, z_array, Unwrap(self.theta_f), Unwrap(self.theta_b),
               Unwrap(self.critical_depth))
    IN  IF self.zlevels = None
        THEN Returned(Ok(made(<<deepest_point>>)))
        ELSE \* one evaluation of validate_z_levels
             CHOOSE r \in { IF v.panic # None THEN v
                            ELSE IF Unwrap(v.value).err # None THEN v
                            ELSE Returned(Ok(made(Unwrap(self.zlevels)))) :
                              v \in {validate_z_levels(deepest_point,
                                                       Unwrap(self.zlevels))} } : TRUE

\* SZBuilder::build: each field is required and validated in the order of
\* the code
SZBuilder_build(self) ==
    IF self.hgrid = None
    THEN Returned(Err(SZBuilderError("UninitializedFieldError", <<"hgrid">>)))
    ELSE IF self.slevels = None
    THEN Returned(Err(SZBuilderError("UninitializedFieldError", <<"slevels">>)))
    ELSE IF self.theta_f = None
    THEN Returned(Err(SZBuilderError("UninitializedFieldError", <<"theta_f">>)))
    ELSE IF validate_theta_f(Unwrap(self.theta_f)).err # None
    THEN Returned(validate_theta_f(Unwrap(self.theta_f)))
    ELSE IF self.theta_b = None
    THEN Returned(Err(SZBuilderError("UninitializedFieldError", <<"theta_b">>)))
    ELSE IF validate_theta_b(Unwrap(self.theta_b)).err # None
    THEN Returned(validate_theta_b(Unwrap(self.theta_b)))
    ELSE IF self.critical_depth = None
    THEN Returned(Err(SZBuilderError("UninitializedFieldError", <<"critical_depth">>)))
    ELSE IF validate_critical_depth(Unwrap(self.critical_depth)).err # None
    THEN Returned(validate_critical_depth(Unwrap(self.critical_depth)))
    ELSE IF depths_min(Unwrap(self.hgrid)).err # None
    THEN Returned(depths_min(Unwrap(self.hgrid)))
    ELSE SZBuilder_build_levels(self, Unwrap(depths_min(Unwrap(self.hgrid)).ok))

\* the arguments of the setters
SZHgridInputs == { <<F64(-10), F64(-100), F64(-50)>>, <<F64(-20)>> }
SZSlevelsInputs == {1, 2, 4}
SZZlevelsInputs ==
    { <<>>, <<F64(-100)>>, <<F64(-200), F64(-100)>>, <<F64(-100), F64(-200)>>,
      <<F64(-100), F64(-100)>>, <<F64(-100), F64(0)>>, <<F64(-100), F64(10)>>,
      <<F64(-5)>>, <<NaN>>, <<F64(-300), F64(-200), F64(-100)>> }
SZThetaBInputs == {F64(-1), F64(0), F64(1), F64(2), NaN}
SZThetaFInputs == {F64(-1), F64(0), F64(3), NaN}
SZCriticalDepthInputs == {F64(4), F64(5), F64(30), NaN}

InitSZ ==
    /\ CCIdle /\ BCIdle /\ TFIdle /\ NoPanic
    /\ CLIIdle /\ BBIdle /\ NHCIdle
    /\ sz = SZBuilder_default
    /\ sz_out = None

\* a setter stores Some(argument) in its field; the result of an earlier
\* build() is dropped
SZSet(field, value) ==
    /\ panic = None
    /\ sz' = [sz EXCEPT ![field] = Some(value)]
    /\ sz_out' = None
    /\ UNCHANGED <<ccvars, bcvars, tfvars, panic, clivars, bbvars, nhcvars>>

SZHgrid == \E hgrid_ \in SZHgridInputs : SZSet("hgrid", hgrid_)

SZSlevels == \E slevels \in SZSlevelsInputs : SZSet("slevels", slevels)

SZZlevels == \E zlevels \in SZZlevelsInputs : SZSet("zlevels", zlevels)

SZThetaB == \E theta_b \in SZThetaBInputs : SZSet("theta_b", theta_b)

SZThetaF == \E theta_f \in SZThetaFInputs : SZSet("theta_f", theta_f)

SZCriticalDepth ==
    \E critical_depth \in SZCriticalDepthInputs :
        SZSet("critical_depth", critical_depth)

\* build(&self): returns a Result, or panics
SZBuild ==
    /\ panic = None
    /\ \E r \in {SZBuilder_build(sz)} :
          /\ sz_out' = r.value
          /\ panic' = r.panic
    /\ UNCHANGED <<sz, ccvars, bcvars, tfvars, clivars, bbvars, nhcvars>>

NextSZ ==
    \/ SZHgrid \/ SZSlevels \/ SZZlevels \/ SZThetaB \/ SZThetaF
    \/ SZCriticalDepth \/ SZBuild

SpecSZ == InitSZ /\ [][NextSZ]_vars

\* ---------------------------------------------------------------------
\* storm_events: the NHC storm inventory and the lookup of an NHC code by
\* storm name and year.  A string is the sequence of its characters; a row
\* of the inventory keeps the columns name, year and nhc_code.

MaxRows == 3

LowerCaseLetters ==
    <<"a","b","c","d","e","f","g","h","i","j","k","l","m",
      "n","o","p","q","r","s","t","u","v","w","x","y","z">>
UpperCaseLetters ==
    <<"A","B","C","D","E","F","G","H","I","J","K","L","M",
      "N","O","P","Q","R","S","T","U","V","W","X","Y","Z">>

\* core::unicode::conversions: the characters beyond ASCII that char::to_uppercase
\* changes, each with the one, two or three characters it becomes; the table
\* is the one of the std the crate is built with, here the mappings of
\* Unicode 17.0 (rustc 1.95). A character beyond ASCII is written as its
\* code point
UPPERCASE_TABLE ==
    {
      <<"U+00B5", <<"U+039C">>>>, <<"U+00DF", <<"S", "S">>>>, <<"U+00E0", <<"U+00C0">>>>,
      <<"U+00E1", <<"U+00C1">>>>, <<"U+00E2", <<"U+00C2">>>>, <<"U+00E3", <<"U+00C3">>>>,
      <<"U+00E4", <<"U+00C4">>>>, <<"U+00E5", <<"U+00C5">>>>, <<"U+00E6", <<"U+00C6">>>>,
      <<"U+00E7", <<"U+00C7">>>>, <<"U+00E8", <<"U+00C8">>>>, <<"U+00E9", <<"U+00C9">>>>,
      <<"U+00EA", <<"U+00CA">>>>, <<"U+00EB", <<"U+00CB">>>>, <<"U+00EC", <<"U+00CC">>>>,
      <<"U+00ED", <<"U+00CD">>>>, <<"U+00EE", <<"U+00CE">>>>, <<"U+00EF", <<"U+00CF">>>>,
      <<"U+00F0", <<"U+00D0">>>>, <<"U+00F1", <<"U+00D1">>>>, <<"U+00F2", <<"U+00D2">>>>,
      <<"U+00F3", <<"U+00D3">>>>, <<"U+00F4", <<"U+00D4">>>>, <<"U+00F5", <<"U+00D5">>>>,
      <<"U+00F6", <<"U+00D6">>>>, <<"U+00F8", <<"U+00D8">>>>, <<"U+00F9", <<"U+00D9">>>>,
      <<"U+00FA", <<"U+00DA">>>>, <<"U+00FB", <<"U+00DB">>>>, <<"U+00FC", <<"U+00DC">>>>,
      <<"U+00FD", <<"U+00DD">>>>, <<"U+00FE", <<"U+00DE">>>>, <<"U+00FF", <<"U+0178">>>>,
      <<"U+0101", <<"U+0100">>>>, <<"U+0103", <<"U+0102">>>>, <<"U+0105", <<"U+0104">>>>,
      <<"U+0107", <<"U+0106">>>>, <<"U+0109", <<"U+0108">>>>, <<"U+010B", <<"U+010A">>>>,
      <<"U+010D", <<"U+010C">>>>, <<"U+010F", <<"U+010E">>>>, <<"U+0111", <<"U+0110">>>>,
      <<"U+0113", <<"U+0112">>>>, <<"U+0115", <<"U+0114">>>>, <<"U+0117", <<"U+0116">>>>,
      <<"U+0119", <<"U+0118">>>>, <<"U+011B", <<"U+011A">>>>, <<"U+011D", <<"U+011C">>>>,
      <<"U+011F", <<"U+011E">>>>, <<"U+0121", <<"U+0120">>>>, <<"U+0123", <<"U+0122">>>>,
      <<"U+0125", <<"U+0124">>>>, <<"U+0127", <<"U+0126">>>>, <<"U+0129", <<"U+0128">>>>,
      <<"U+012B", <<"U+012A">>>>, <<"U+012D", <<"U+012C">>>>, <<"U+012F", <<"U+012E">>>>,
      <<"U+0131", <<"I">>>>, <<"U+0133", <<"U+0132">>>>, <<"U+0135", <<"U+0134">>>>,
      <<"U+0137", <<"U+0136">>>>, <<"U+013A", <<"U+0139">>>>, <<"U+013C", <<"U+013B">>>>,
      <<"U+013E", <<"U+013D">>>>, <<"U+0140", <<"U+013F">>>>, <<"U+0142", <<"U+0141">>>>,
      <<"U+0144", <<"U+0143">>>>, <<"U+0146", <<"U+0145">>>>, <<"U+0148", <<"U+0147">>>>,
      <<"U+0149", <<"U+02BC", "N">>>>, <<"U+014B", <<"U+014A">>>>, <<"U+014D", <<"U+014C">>>>,
      <<"U+014F", <<"U+014E">>>>, <<"U+0151", <<"U+0150">>>>, <<"U+0153", <<"U+0152">>>>,
      <<"U+0155", <<"U+0154">>>>, <<"U+0157", <<"U+0156">>>>, <<"U+0159", <<"U+0158">>>>,
      <<"U+015B", <<"U+015A">>>>, <<"U+015D", <<"U+015C">>>>, <<"U+015F", <<"U+015E">>>>,
      <<"U+0161", <<"U+0160">>>>, <<"U+0163", <<"U+0162">>>>, <<"U+0165", <<"U+0164">>>>,
      <<"U+0167", <<"U+0166">>>>, <<"U+0169", <<"U+0168">>>>, <<"U+016B", <<"U+016A">>>>,
      <<"U+016D", <<"U+016C">>>>, <<"U+016F", <<"U+016E">>>>, <<"U+0171", <<"U+0170">>>>,
      <<"U+0173", <<"U+0172">>>>, <<"U+0175", <<"U+0174">>>>, <<"U+0177", <<"U+0176">>>>,
      <<"U+017A", <<"U+0179">>>>, <<"U+017C", <<"U+017B">>>>, <<"U+017E", <<"U+017D">>>>,
      <<"U+017F", <<"S">>>>, <<"U+0180", <<"U+0243">>>>, <<"U+0183", <<"U+0182">>>>,
      <<"U+0185", <<"U+0184">>>>, <<"U+0188", <<"U+0187">>>>, <<"U+018C", <<"U+018B">>>>,
      <<"U+0192", <<"U+0191">>>>, <<"U+0195", <<"U+01F6">>>>, <<"U+0199", <<"U+0198">>>>,
      <<"U+019A", <<"U+023D">>>>, <<"U+019B", <<"U+A7DC">>>>, <<"U+019E", <<"U+0220">>>>,
      <<"U+01A1", <<"U+01A0">>>>, <<"U+01A3", <<"U+01A2">>>>, <<"U+01A5", <<"U+01A4">>>>,
      <<"U+01A8", <<"U+01A7">>>>, <<"U+01AD", <<"U+01AC">>>>, <<"U+01B0", <<"U+01AF">>>>,
      <<"U+01B4", <<"U+01B3">>>>, <<"U+01B6", <<"U+01B5">>>>, <<"U+01B9", <<"U+01B8">>>>,
      <<"U+01BD", <<"U+01BC">>>>, <<"U+01BF", <<"U+01F7">>>>, <<"U+01C5", <<"U+01C4">>>>,
      <<"U+01C6", <<"U+01C4">>>>, <<"U+01C8", <<"U+01C7">>>>, <<"U+01C9", <<"U+01C7">>>>,
      <<"U+01CB", <<"U+01CA">>>>, <<"U+01CC", <<"U+01CA">>>>, <<"U+01CE", <<"U+01CD">>>>,
      <<"U+01D0", <<"U+01CF">>>>, <<"U+01D2", <<"U+01D1">>>>, <<"U+01D4", <<"U+01D3">>>>,
      <<"U+01D6", <<"U+01D5">>>>, <<"U+01D8", <<"U+01D7">>>>, <<"U+01DA", <<"U+01D9">>>>,
      <<"U+01DC", <<"U+01DB">>>>, <<"U+01DD", <<"U+018E">>>>, <<"U+01DF", <<"U+01DE">>>>,
      <<"U+01E1", <<"U+01E0">>>>, <<"U+01E3", <<"U+01E2">>>>, <<"U+01E5", <<"U+01E4">>>>,
      <<"U+01E7", <<"U+01E6">>>>, <<"U+01E9", <<"U+01E8">>>>, <<"U+01EB", <<"U+01EA">>>>,
      <<"U+01ED", <<"U+01EC">>>>, <<"U+01EF", <<"U+01EE">>>>, <<"U+01F0", <<"J", "U+030C">>>>,
      <<"U+01F2", <<"U+01F1">>>>, <<"U+01F3", <<"U+01F1">>>>, <<"U+01F5", <<"U+01F4">>>>,
      <<"U+01F9", <<"U+01F8">>>>, <<"U+01FB", <<"U+01FA">>>>, <<"U+01FD", <<"U+01FC">>>>,
      <<"U+01FF", <<"U+01FE">>>>, <<"U+0201", <<"U+0200">>>>, <<"U+0203", <<"U+0202">>>>,
      <<"U+0205", <<"U+0204">>>>, <<"U+0207", <<"U+0206">>>>, <<"U+0209", <<"U+0208">>>>,
      <<"U+020B", <<"U+020A">>>>, <<"U+020D", <<"U+020C">>>>, <<"U+020F", <<"U+020E">>>>,
      <<"U+0211", <<"U+0210">>>>, <<"U+0213", <<"U+0212">>>>, <<"U+0215", <<"U+0214">>>>,
      <<"U+0217", <<"U+0216">>>>, <<"U+0219", <<"U+0218">>>>, <<"U+021B", <<"U+021A">>>>,
      <<"U+021D", <<"U+021C">>>>, <<"U+021F", <<"U+021E">>>>, <<"U+0223", <<"U+0222">>>>,
      <<"U+0225", <<"U+0224">>>>, <<"U+0227", <<"U+0226">>>>, <<"U+0229", <<"U+0228">>>>,
      <<"U+022B", <<"U+022A">>>>, <<"U+022D", <<"U+022C">>>>, <<"U+022F", <<"U+022E">>>>,
      <<"U+0231", <<"U+0230">>>>, <<"U+0233", <<"U+0232">>>>, <<"U+023C", <<"U+023B">>>>,
      <<"U+023F", <<"U+2C7E">>>>, <<"U+0240", <<"U+2C7F">>>>, <<"U+0242", <<"U+0241">>>>,
      <<"U+0247", <<"U+0246">>>>, <<"U+0249", <<"U+0248">>>>, <<"U+024B", <<"U+024A">>>>,
      <<"U+024D", <<"U+024C">>>>, <<"U+024F", <<"U+024E">>>>, <<"U+0250", <<"U+2C6F">>>>,
      <<"U+0251", <<"U+2C6D">>>>, <<"U+0252", <<"U+2C70">>>>, <<"U+0253", <<"U+0181">>>>,
      <<"U+0254", <<"U+0186">>>>, <<"U+0256", <<"U+0189">>>>, <<"U+0257", <<"U+018A">>>>,
      <<"U+0259", <<"U+018F">>>>, <<"U+025B", <<"U+0190">>>>, <<"U+025C", <<"U+A7AB">>>>,
      <<"U+0260", <<"U+0193">>>>, <<"U+0261", <<"U+A7AC">>>>, <<"U+0263", <<"U+0194">>>>,
      <<"U+0264", <<"U+A7CB">>>>, <<"U+0265", <<"U+A78D">>>>, <<"U+0266", <<"U+A7AA">>>>,
      <<"U+0268", <<"U+0197">>>>, <<"U+0269", <<"U+0196">>>>, <<"U+026A", <<"U+A7AE">>>>,
      <<"U+026B", <<"U+2C62">>>>, <<"U+026C", <<"U+A7AD">>>>, <<"U+026F", <<"U+019C">>>>,
      <<"U+0271", <<"U+2C6E">>>>, <<"U+0272", <<"U+019D">>>>, <<"U+0275", <<"U+019F">>>>,
      <<"U+027D", <<"U+2C64">>>>, <<"U+0280", <<"U+01A6">>>>, <<"U+0282", <<"U+A7C5">>>>,
      <<"U+0283", <<"U+01A9">>>>, <<"U+0287", <<"U+A7B1">>>>, <<"U+0288", <<"U+01AE">>>>,
      <<"U+0289", <<"U+0244">>>>, <<"U+028A", <<"U+01B1">>>>, <<"U+028B", <<"U+01B2">>>>,
      <<"U+028C", <<"U+0245">>>>, <<"U+0292", <<"U+01B7">>>>, <<"U+029D", <<"U+A7B2">>>>,
      <<"U+029E", <<"U+A7B0">>>>, <<"U+0345", <<"U+0399">>>>, <<"U+0371", <<"U+0370">>>>,
      <<"U+0373", <<"U+0372">>>>, <<"U+0377", <<"U+0376">>>>, <<"U+037B", <<"U+03FD">>>>,
      <<"U+037C", <<"U+03FE">>>>, <<"U+037D", <<"U+03FF">>>>,
      <<"U+0390", <<"U+0399", "U+0308", "U+0301">>>>, <<"U+03AC", <<"U+0386">>>>,
      <<"U+03AD", <<"U+0388">>>>, <<"U+03AE", <<"U+0389">>>>, <<"U+03AF", <<"U+038A">>>>,
      <<"U+03B0", <<"U+03A5", "U+0308", "U+0301">>>>, <<"U+03B1", <<"U+0391">>>>,
      <<"U+03B2", <<"U+0392">>>>, <<"U+03B3", <<"U+0393">>>>, <<"U+03B4", <<"U+0394">>>>,
      <<"U+03B5", <<"U+0395">>>>, <<"U+03B6", <<"U+0396">>>>, <<"U+03B7", <<"U+0397">>>>,
      <<"U+03B8", <<"U+0398">>>>, <<"U+03B9", <<"U+0399">>>>, <<"U+03BA", <<"U+039A">>>>,
      <<"U+03BB", <<"U+039B">>>>, <<"U+03BC", <<"U+039C">>>>, <<"U+03BD", <<"U+039D">>>>,
      <<"U+03BE", <<"U+039E">>>>, <<"U+03BF", <<"U+039F">>>>, <<"U+03C0", <<"U+03A0">>>>,
      <<"U+03C1", <<"U+03A1">>>>, <<"U+03C2", <<"U+03A3">>>>, <<"U+03C3", <<"U+03A3">>>>,
      <<"U+03C4", <<"U+03A4">>>>, <<"U+03C5", <<"U+03A5">>>>, <<"U+03C6", <<"U+03A6">>>>,
      <<"U+03C7", <<"U+03A7">>>>, <<"U+03C8", <<"U+03A8">>>>, <<"U+03C9", <<"U+03A9">>>>,
      <<"U+03CA", <<"U+03AA">>>>, <<"U+03CB", <<"U+03AB">>>>, <<"U+03CC", <<"U+038C">>>>,
      <<"U+03CD", <<"U+038E">>>>, <<"U+03CE", <<"U+038F">>>>, <<"U+03D0", <<"U+0392">>>>,
      <<"U+03D1", <<"U+0398">>>>, <<"U+03D5", <<"U+03A6">>>>, <<"U+03D6", <<"U+03A0">>>>,
      <<"U+03D7", <<"U+03CF">>>>, <<"U+03D9", <<"U+03D8">>>>, <<"U+03DB", <<"U+03DA">>>>,
      <<"U+03DD", <<"U+03DC">>>>, <<"U+03DF", <<"U+03DE">>>>, <<"U+03E1", <<"U+03E0">>>>,
      <<"U+03E3", <<"U+03E2">>>>, <<"U+03E5", <<"U+03E4">>>>, <<"U+03E7", <<"U+03E6">>>>,
      <<"U+03E9", <<"U+03E8">>>>, <<"U+03EB", <<"U+03EA">>>>, <<"U+03ED", <<"U+03EC">>>>,
      <<"U+03EF", <<"U+03EE">>>>, <<"U+03F0", <<"U+039A">>>>, <<"U+03F1", <<"U+03A1">>>>,
      <<"U+03F2", <<"U+03F9">>>>, <<"U+03F3", <<"U+037F">>>>, <<"U+03F5", <<"U+0395">>>>,
      <<"U+03F8", <<"U+03F7">>>>, <<"U+03FB", <<"U+03FA">>>>, <<"U+0430", <<"U+0410">>>>,
      <<"U+0431", <<"U+0411">>>>, <<"U+0432", <<"U+0412">>>>, <<"U+0433", <<"U+0413">>>>,
      <<"U+0434", <<"U+0414">>>>, <<"U+0435", <<"U+0415">>>>, <<"U+0436", <<"U+0416">>>>,
      <<"U+0437", <<"U+0417">>>>, <<"U+0438", <<"U+0418">>>>, <<"U+0439", <<"U+0419">>>>,
      <<"U+043A", <<"U+041A">>>>, <<"U+043B", <<"U+041B">>>>, <<"U+043C", <<"U+041C">>>>,
      <<"U+043D", <<"U+041D">>>>, <<"U+043E", <<"U+041E">>>>, <<"U+043F", <<"U+041F">>>>,
      <<"U+0440", <<"U+0420">>>>, <<"U+0441", <<"U+0421">>>>, <<"U+0442", <<"U+0422">>>>,
      <<"U+0443", <<"U+0423">>>>, <<"U+0444", <<"U+0424">>>>, <<"U+0445", <<"U+0425">>>>,
      <<"U+0446", <<"U+0426">>>>, <<"U+0447", <<"U+0427">>>>, <<"U+0448", <<"U+0428">>>>,
      <<"U+0449", <<"U+0429">>>>, <<"U+044A", <<"U+042A">>>>, <<"U+044B", <<"U+042B">>>>,
      <<"U+044C", <<"U+042C">>>>, <<"U+044D", <<"U+042D">>>>, <<"U+044E", <<"U+042E">>>>,
      <<"U+044F", <<"U+042F">>>>, <<"U+0450", <<"U+0400">>>>, <<"U+0451", <<"U+0401">>>>,
      <<"U+0452", <<"U+0402">>>>, <<"U+0453", <<"U+0403">>>>, <<"U+0454", <<"U+0404">>>>,
      <<"U+0455", <<"U+0405">>>>, <<"U+0456", <<"U+0406">>>>, <<"U+0457", <<"U+0407">>>>,
      <<"U+0458", <<"U+0408">>>>, <<"U+0459", <<"U+0409">>>>, <<"U+045A", <<"U+040A">>>>,
      <<"U+045B", <<"U+040B">>>>, <<"U+045C", <<"U+040C">>>>, <<"U+045D", <<"U+040D">>>>,
      <<"U+045E", <<"U+040E">>>>, <<"U+045F", <<"U+040F">>>>, <<"U+0461", <<"U+0460">>>>,
      <<"U+0463", <<"U+0462">>>>, <<"U+0465", <<"U+0464">>>>, <<"U+0467", <<"U+0466">>>>,
      <<"U+0469", <<"U+0468">>>>, <<"U+046B", <<"U+046A">>>>, <<"U+046D", <<"U+046C">>>>,
      <<"U+046F", <<"U+046E">>>>, <<"U+0471", <<"U+0470">>>>, <<"U+0473", <<"U+0472">>>>,
      <<"U+0475", <<"U+0474">>>>, <<"U+0477", <<"U+0476">>>>, <<"U+0479", <<"U+0478">>>>,
      <<"U+047B", <<"U+047A">>>>, <<"U+047D", <<"U+047C">>>>, <<"U+047F", <<"U+047E">>>>,
      <<"U+0481", <<"U+0480">>>>, <<"U+048B", <<"U+048A">>>>, <<"U+048D", <<"U+048C">>>>,
      <<"U+048F", <<"U+048E">>>>, <<"U+0491", <<"U+0490">>>>, <<"U+0493", <<"U+0492">>>>,
      <<"U+0495", <<"U+0494">>>>, <<"U+0497", <<"U+0496">>>>, <<"U+0499", <<"U+0498">>>>,
      <<"U+049B", <<"U+049A">>>>, <<"U+049D", <<"U+049C">>>>, <<"U+049F", <<"U+049E">>>>,
      <<"U+04A1", <<"U+04A0">>>>, <<"U+04A3", <<"U+04A2">>>>, <<"U+04A5", <<"U+04A4">>>>,
      <<"U+04A7", <<"U+04A6">>>>, <<"U+04A9", <<"U+04A8">>>>, <<"U+04AB", <<"U+04AA">>>>,
      <<"U+04AD", <<"U+04AC">>>>, <<"U+04AF", <<"U+04AE">>>>, <<"U+04B1", <<"U+04B0">>>>,
      <<"U+04B3", <<"U+04B2">>>>, <<"U+04B5", <<"U+04B4">>>>, <<"U+04B7", <<"U+04B6">>>>,
      <<"U+04B9", <<"U+04B8">>>>, <<"U+04BB", <<"U+04BA">>>>, <<"U+04BD", <<"U+04BC">>>>,
      <<"U+04BF", <<"U+04BE">>>>, <<"U+04C2", <<"U+04C1">>>>, <<"U+04C4", <<"U+04C3">>>>,
      <<"U+04C6", <<"U+04C5">>>>, <<"U+04C8", <<"U+04C7">>>>, <<"U+04CA", <<"U+04C9">>>>,
      <<"U+04CC", <<"U+04CB">>>>, <<"U+04CE", <<"U+04CD">>>>, <<"U+04CF", <<"U+04C0">>>>,
      <<"U+04D1", <<"U+04D0">>>>, <<"U+04D3", <<"U+04D2">>>>, <<"U+04D5", <<"U+04D4">>>>,
      <<"U+04D7", <<"U+04D6">>>>, <<"U+04D9", <<"U+04D8">>>>, <<"U+04DB", <<"U+04DA">>>>,
      <<"U+04DD", <<"U+04DC">>>>, <<"U+04DF", <<"U+04DE">>>>, <<"U+04E1", <<"U+04E0">>>>,
      <<"U+04E3", <<"U+04E2">>>>, <<"U+04E5", <<"U+04E4">>>>, <<"U+04E7", <<"U+04E6">>>>,
      <<"U+04E9", <<"U+04E8">>>>, <<"U+04EB", <<"U+04EA">>>>, <<"U+04ED", <<"U+04EC">>>>,
      <<"U+04EF", <<"U+04EE">>>>, <<"U+04F1", <<"U+04F0">>>>, <<"U+04F3", <<"U+04F2">>>>,
      <<"U+04F5", <<"U+04F4">>>>, <<"U+04F7", <<"U+04F6">>>>, <<"U+04F9", <<"U+04F8">>>>,
      <<"U+04FB", <<"U+04FA">>>>, <<"U+04FD", <<"U+04FC">>>>, <<"U+04FF", <<"U+04FE">>>>,
      <<"U+0501", <<"U+0500">>>>, <<"U+0503", <<"U+0502">>>>, <<"U+0505", <<"U+0504">>>>,
      <<"U+0507", <<"U+0506">>>>, <<"U+0509", <<"U+0508">>>>, <<"U+050B", <<"U+050A">>>>,
      <<"U+050D", <<"U+050C">>>>, <<"U+050F", <<"U+050E">>>>, <<"U+0511", <<"U+0510">>>>,
      <<"U+0513", <<"U+0512">>>>, <<"U+0515", <<"U+0514">>>>, <<"U+0517", <<"U+0516">>>>,
      <<"U+0519", <<"U+0518">>>>, <<"U+051B", <<"U+051A">>>>, <<"U+051D", <<"U+051C">>>>,
      <<"U+051F", <<"U+051E">>>>, <<"U+0521", <<"U+0520">>>>, <<"U+0523", <<"U+0522">>>>,
      <<"U+0525", <<"U+0524">>>>, <<"U+0527", <<"U+0526">>>>, <<"U+0529", <<"U+0528">>>>,
      <<"U+052B", <<"U+052A">>>>, <<"U+052D", <<"U+052C">>>>, <<"U+052F", <<"U+052E">>>>,
      <<"U+0561", <<"U+0531">>>>, <<"U+0562", <<"U+0532">>>>, <<"U+0563", <<"U+0533">>>>,
      <<"U+0564", <<"U+0534">>>>, <<"U+0565", <<"U+0535">>>>, <<"U+0566", <<"U+0536">>>>,
      <<"U+0567", <<"U+0537">>>>, <<"U+0568", <<"U+0538">>>>, <<"U+0569", <<"U+0539">>>>,
      <<"U+056A", <<"U+053A">>>>, <<"U+056B", <<"U+053B">>>>, <<"U+056C", <<"U+053C">>>>,
      <<"U+056D", <<"U+053D">>>>, <<"U+056E", <<"U+053E">>>>, <<"U+056F", <<"U+053F">>>>,
      <<"U+0570", <<"U+0540">>>>, <<"U+0571", <<"U+0541">>>>, <<"U+0572", <<"U+0542">>>>,
      <<"U+0573", <<"U+0543">>>>, <<"U+0574", <<"U+0544">>>>, <<"U+0575", <<"U+0545">>>>,
      <<"U+0576", <<"U+0546">>>>, <<"U+0577", <<"U+0547">>>>, <<"U+0578", <<"U+0548">>>>,
      <<"U+0579", <<"U+0549">>>>, <<"U+057A", <<"U+054A">>>>, <<"U+057B", <<"U+054B">>>>,
      <<"U+057C", <<"U+054C">>>>, <<"U+057D", <<"U+054D">>>>, <<"U+057E", <<"U+054E">>>>,
      <<"U+057F", <<"U+054F">>>>, <<"U+0580", <<"U+0550">>>>, <<"U+0581", <<"U+0551">>>>,
      <<"U+0582", <<"U+0552">>>>, <<"U+0583", <<"U+0553">>>>, <<"U+0584", <<"U+0554">>>>,
      <<"U+0585", <<"U+0555">>>>, <<"U+0586", <<"U+0556">>>>, <<"U+0587", <<"U+0535", "U+0552">>>>,
      <<"U+10D0", <<"U+1C90">>>>, <<"U+10D1", <<"U+1C91">>>>, <<"U+10D2", <<"U+1C92">>>>,
      <<"U+10D3", <<"U+1C93">>>>, <<"U+10D4", <<"U+1C94">>>>, <<"U+10D5", <<"U+1C95">>>>,
      <<"U+10D6", <<"U+1C96">>>>, <<"U+10D7", <<"U+1C97">>>>, <<"U+10D8", <<"U+1C98">>>>,
      <<"U+10D9", <<"U+1C99">>>>, <<"U+10DA", <<"U+1C9A">>>>, <<"U+10DB", <<"U+1C9B">>>>,
      <<"U+10DC", <<"U+1C9C">>>>, <<"U+10DD", <<"U+1C9D">>>>, <<"U+10DE", <<"U+1C9E">>>>,
      <<"U+10DF", <<"U+1C9F">>>>, <<"U+10E0", <<"U+1CA0">>>>, <<"U+10E1", <<"U+1CA1">>>>,
      <<"U+10E2", <<"U+1CA2">>>>, <<"U+10E3", <<"U+1CA3">>>>, <<"U+10E4", <<"U+1CA4">>>>,
      <<"U+10E5", <<"U+1CA5">>>>, <<"U+10E6", <<"U+1CA6">>>>, <<"U+10E7", <<"U+1CA7">>>>,
      <<"U+10E8", <<"U+1CA8">>>>, <<"U+10E9", <<"U+1CA9">>>>, <<"U+10EA", <<"U+1CAA">>>>,
      <<"U+10EB", <<"U+1CAB">>>>, <<"U+10EC", <<"U+1CAC">>>>, <<"U+10ED", <<"U+1CAD">>>>,
      <<"U+10EE", <<"U+1CAE">>>>, <<"U+10EF", <<"U+1CAF">>>>, <<"U+10F0", <<"U+1CB0">>>>,
      <<"U+10F1", <<"U+1CB1">>>>, <<"U+10F2", <<"U+1CB2">>>>, <<"U+10F3", <<"U+1CB3">>>>,
      <<"U+10F4", <<"U+1CB4">>>>, <<"U+10F5", <<"U+1CB5">>>>, <<"U+10F6", <<"U+1CB6">>>>,
      <<"U+10F7", <<"U+1CB7">>>>, <<"U+10F8", <<"U+1CB8">>>>, <<"U+10F9", <<"U+1CB9">>>>,
      <<"U+10FA", <<"U+1CBA">>>>, <<"U+10FD", <<"U+1CBD">>>>, <<"U+10FE", <<"U+1CBE">>>>,
      <<"U+10FF", <<"U+1CBF">>>>, <<"U+13F8", <<"U+13F0">>>>, <<"U+13F9", <<"U+13F1">>>>,
      <<"U+13FA", <<"U+13F2">>>>, <<"U+13FB", <<"U+13F3">>>>, <<"U+13FC", <<"U+13F4">>>>,
      <<"U+13FD", <<"U+13F5">>>>, <<"U+1C80", <<"U+0412">>>>, <<"U+1C81", <<"U+0414">>>>,
      <<"U+1C82", <<"U+041E">>>>, <<"U+1C83", <<"U+0421">>>>, <<"U+1C84", <<"U+0422">>>>,
      <<"U+1C85", <<"U+0422">>>>, <<"U+1C86", <<"U+042A">>>>, <<"U+1C87", <<"U+0462">>>>,
      <<"U+1C88", <<"U+A64A">>>>, <<"U+1C8A", <<"U+1C89">>>>, <<"U+1D79", <<"U+A77D">>>>,
      <<"U+1D7D", <<"U+2C63">>>>, <<"U+1D8E", <<"U+A7C6">>>>, <<"U+1E01", <<"U+1E00">>>>,
      <<"U+1E03", <<"U+1E02">>>>, <<"U+1E05", <<"U+1E04">>>>, <<"U+1E07", <<"U+1E06">>>>,
      <<"U+1E09", <<"U+1E08">>>>, <<"U+1E0B", <<"U+1E0A">>>>, <<"U+1E0D", <<"U+1E0C">>>>,
      <<"U+1E0F", <<"U+1E0E">>>>, <<"U+1E11", <<"U+1E10">>>>, <<"U+1E13", <<"U+1E12">>>>,
      <<"U+1E15", <<"U+1E14">>>>, <<"U+1E17", <<"U+1E16">>>>, <<"U+1E19", <<"U+1E18">>>>,
      <<"U+1E1B", <<"U+1E1A">>>>, <<"U+1E1D", <<"U+1E1C">>>>, <<"U+1E1F", <<"U+1E1E">>>>,
      <<"U+1E21", <<"U+1E20">>>>, <<"U+1E23", <<"U+1E22">>>>, <<"U+1E25", <<"U+1E24">>>>,
      <<"U+1E27", <<"U+1E26">>>>, <<"U+1E29", <<"U+1E28">>>>, <<"U+1E2B", <<"U+1E2A">>>>,
      <<"U+1E2D", <<"U+1E2C">>>>, <<"U+1E2F", <<"U+1E2E">>>>, <<"U+1E31", <<"U+1E30">>>>,
      <<"U+1E33", <<"U+1E32">>>>, <<"U+1E35", <<"U+1E34">>>>, <<"U+1E37", <<"U+1E36">>>>,
      <<"U+1E39", <<"U+1E38">>>>, <<"U+1E3B", <<"U+1E3A">>>>, <<"U+1E3D", <<"U+1E3C">>>>,
      <<"U+1E3F", <<"U+1E3E">>>>, <<"U+1E41", <<"U+1E40">>>>, <<"U+1E43", <<"U+1E42">>>>,
      <<"U+1E45", <<"U+1E44">>>>, <<"U+1E47", <<"U+1E46">>>>, <<"U+1E49", <<"U+1E48">>>>,
      <<"U+1E4B", <<"U+1E4A">>>>, <<"U+1E4D", <<"U+1E4C">>>>, <<"U+1E4F", <<"U+1E4E">>>>,
      <<"U+1E51", <<"U+1E50">>>>, <<"U+1E53", <<"U+1E52">>>>, <<"U+1E55", <<"U+1E54">>>>,
      <<"U+1E57", <<"U+1E56">>>>, <<"U+1E59", <<"U+1E58">>>>, <<"U+1E5B", <<"U+1E5A">>>>,
      <<"U+1E5D", <<"U+1E5C">>>>, <<"U+1E5F", <<"U+1E5E">>>>, <<"U+1E61", <<"U+1E60">>>>,
      <<"U+1E63", <<"U+1E62">>>>, <<"U+1E65", <<"U+1E64">>>>, <<"U+1E67", <<"U+1E66">>>>,
      <<"U+1E69", <<"U+1E68">>>>, <<"U+1E6B", <<"U+1E6A">>>>, <<"U+1E6D", <<"U+1E6C">>>>,
      <<"U+1E6F", <<"U+1E6E">>>>, <<"U+1E71", <<"U+1E70">>>>, <<"U+1E73", <<"U+1E72">>>>,
      <<"U+1E75", <<"U+1E74">>>>, <<"U+1E77", <<"U+1E76">>>>, <<"U+1E79", <<"U+1E78">>>>,
      <<"U+1E7B", <<"U+1E7A">>>>, <<"U+1E7D", <<"U+1E7C">>>>, <<"U+1E7F", <<"U+1E7E">>>>,
      <<"U+1E81", <<"U+1E80">>>>, <<"U+1E83", <<"U+1E82">>>>, <<"U+1E85", <<"U+1E84">>>>,
      <<"U+1E87", <<"U+1E86">>>>, <<"U+1E89", <<"U+1E88">>>>, <<"U+1E8B", <<"U+1E8A">>>>,
      <<"U+1E8D", <<"U+1E8C">>>>, <<"U+1E8F", <<"U+1E8E">>>>, <<"U+1E91", <<"U+1E90">>>>,
      <<"U+1E93", <<"U+1E92">>>>, <<"U+1E95", <<"U+1E94">>>>, <<"U+1E96", <<"H", "U+0331">>>>,
      <<"U+1E97", <<"T", "U+0308">>>>, <<"U+1E98", <<"W", "U+030A">>>>,
      <<"U+1E99", <<"Y", "U+030A">>>>, <<"U+1E9A", <<"A", "U+02BE">>>>, <<"U+1E9B", <<"U+1E60">>>>,
      <<"U+1EA1", <<"U+1EA0">>>>, <<"U+1EA3", <<"U+1EA2">>>>, <<"U+1EA5", <<"U+1EA4">>>>,
      <<"U+1EA7", <<"U+1EA6">>>>, <<"U+1EA9", <<"U+1EA8">>>>, <<"U+1EAB", <<"U+1EAA">>>>,
      <<"U+1EAD", <<"U+1EAC">>>>, <<"U+1EAF", <<"U+1EAE">>>>, <<"U+1EB1", <<"U+1EB0">>>>,
      <<"U+1EB3", <<"U+1EB2">>>>, <<"U+1EB5", <<"U+1EB4">>>>, <<"U+1EB7", <<"U+1EB6">>>>,
      <<"U+1EB9", <<"U+1EB8">>>>, <<"U+1EBB", <<"U+1EBA">>>>, <<"U+1EBD", <<"U+1EBC">>>>,
      <<"U+1EBF", <<"U+1EBE">>>>, <<"U+1EC1", <<"U+1EC0">>>>, <<"U+1EC3", <<"U+1EC2">>>>,
      <<"U+1EC5", <<"U+1EC4">>>>, <<"U+1EC7", <<"U+1EC6">>>>, <<"U+1EC9", <<"U+1EC8">>>>,
      <<"U+1ECB", <<"U+1ECA">>>>, <<"U+1ECD", <<"U+1ECC">>>>, <<"U+1ECF", <<"U+1ECE">>>>,
      <<"U+1ED1", <<"U+1ED0">>>>, <<"U+1ED3", <<"U+1ED2">>>>, <<"U+1ED5", <<"U+1ED4">>>>,
      <<"U+1ED7", <<"U+1ED6">>>>, <<"U+1ED9", <<"U+1ED8">>>>, <<"U+1EDB", <<"U+1EDA">>>>,
      <<"U+1EDD", <<"U+1EDC">>>>, <<"U+1EDF", <<"U+1EDE">>>>, <<"U+1EE1", <<"U+1EE0">>>>,
      <<"U+1EE3", <<"U+1EE2">>>>, <<"U+1EE5", <<"U+1EE4">>>>, <<"U+1EE7", <<"U+1EE6">>>>,
      <<"U+1EE9", <<"U+1EE8">>>>, <<"U+1EEB", <<"U+1EEA">>>>, <<"U+1EED", <<"U+1EEC">>>>,
      <<"U+1EEF", <<"U+1EEE">>>>, <<"U+1EF1", <<"U+1EF0">>>>, <<"U+1EF3", <<"U+1EF2">>>>,
      <<"U+1EF5", <<"U+1EF4">>>>, <<"U+1EF7", <<"U+1EF6">>>>, <<"U+1EF9", <<"U+1EF8">>>>,
      <<"U+1EFB", <<"U+1EFA">>>>, <<"U+1EFD", <<"U+1EFC">>>>, <<"U+1EFF", <<"U+1EFE">>>>,
      <<"U+1F00", <<"U+1F08">>>>, <<"U+1F01", <<"U+1F09">>>>, <<"U+1F02", <<"U+1F0A">>>>,
      <<"U+1F03", <<"U+1F0B">>>>, <<"U+1F04", <<"U+1F0C">>>>, <<"U+1F05", <<"U+1F0D">>>>,
      <<"U+1F06", <<"U+1F0E">>>>, <<"U+1F07", <<"U+1F0F">>>>, <<"U+1F10", <<"U+1F18">>>>,
      <<"U+1F11", <<"U+1F19">>>>, <<"U+1F12", <<"U+1F1A">>>>, <<"U+1F13", <<"U+1F1B">>>>,
      <<"U+1F14", <<"U+1F1C">>>>, <<"U+1F15", <<"U+1F1D">>>>, <<"U+1F20", <<"U+1F28">>>>,
      <<"U+1F21", <<"U+1F29">>>>, <<"U+1F22", <<"U+1F2A">>>>, <<"U+1F23", <<"U+1F2B">>>>,
      <<"U+1F24", <<"U+1F2C">>>>, <<"U+1F25", <<"U+1F2D">>>>, <<"U+1F26", <<"U+1F2E">>>>,
      <<"U+1F27", <<"U+1F2F">>>>, <<"U+1F30", <<"U+1F38">>>>, <<"U+1F31", <<"U+1F39">>>>,
      <<"U+1F32", <<"U+1F3A">>>>, <<"U+1F33", <<"U+1F3B">>>>, <<"U+1F34", <<"U+1F3C">>>>,
      <<"U+1F35", <<"U+1F3D">>>>, <<"U+1F36", <<"U+1F3E">>>>, <<"U+1F37", <<"U+1F3F">>>>,
      <<"U+1F40", <<"U+1F48">>>>, <<"U+1F41", <<"U+1F49">>>>, <<"U+1F42", <<"U+1F4A">>>>,
      <<"U+1F43", <<"U+1F4B">>>>, <<"U+1F44", <<"U+1F4C">>>>, <<"U+1F45", <<"U+1F4D">>>>,
      <<"U+1F50", <<"U+03A5", "U+0313">>>>, <<"U+1F51", <<"U+1F59">>>>,
      <<"U+1F52", <<"U+03A5", "U+0313", "U+0300">>>>, <<"U+1F53", <<"U+1F5B">>>>,
      <<"U+1F54", <<"U+03A5", "U+0313", "U+0301">>>>, <<"U+1F55", <<"U+1F5D">>>>,
      <<"U+1F56", <<"U+03A5", "U+0313", "U+0342">>>>, <<"U+1F57", <<"U+1F5F">>>>,
      <<"U+1F60", <<"U+1F68">>>>, <<"U+1F61", <<"U+1F69">>>>, <<"U+1F62", <<"U+1F6A">>>>,
      <<"U+1F63", <<"U+1F6B">>>>, <<"U+1F64", <<"U+1F6C">>>>, <<"U+1F65", <<"U+1F6D">>>>,
      <<"U+1F66", <<"U+1F6E">>>>, <<"U+1F67", <<"U+1F6F">>>>, <<"U+1F70", <<"U+1FBA">>>>,
      <<"U+1F71", <<"U+1FBB">>>>, <<"U+1F72", <<"U+1FC8">>>>, <<"U+1F73", <<"U+1FC9">>>>,
      <<"U+1F74", <<"U+1FCA">>>>, <<"U+1F75", <<"U+1FCB">>>>, <<"U+1F76", <<"U+1FDA">>>>,
      <<"U+1F77", <<"U+1FDB">>>>, <<"U+1F78", <<"U+1FF8">>>>, <<"U+1F79", <<"U+1FF9">>>>,
      <<"U+1F7A", <<"U+1FEA">>>>, <<"U+1F7B", <<"U+1FEB">>>>, <<"U+1F7C", <<"U+1FFA">>>>,
      <<"U+1F7D", <<"U+1FFB">>>>, <<"U+1F80", <<"U+1F08", "U+0399">>>>,
      <<"U+1F81", <<"U+1F09", "U+0399">>>>, <<"U+1F82", <<"U+1F0A", "U+0399">>>>,
      <<"U+1F83", <<"U+1F0B", "U+0399">>>>, <<"U+1F84", <<"U+1F0C", "U+0399">>>>,
      <<"U+1F85", <<"U+1F0D", "U+0399">>>>, <<"U+1F86", <<"U+1F0E", "U+0399">>>>,
      <<"U+1F87", <<"U+1F0F", "U+0399">>>>, <<"U+1F88", <<"U+1F08", "U+0399">>>>,
      <<"U+1F89", <<"U+1F09", "U+0399">>>>, <<"U+1F8A", <<"U+1F0A", "U+0399">>>>,
      <<"U+1F8B", <<"U+1F0B", "U+0399">>>>, <<"U+1F8C", <<"U+1F0C", "U+0399">>>>,
      <<"U+1F8D", <<"U+1F0D", "U+0399">>>>, <<"U+1F8E", <<"U+1F0E", "U+0399">>>>,
      <<"U+1F8F", <<"U+1F0F", "U+0399">>>>, <<"U+1F90", <<"U+1F28", "U+0399">>>>,
      <<"U+1F91", <<"U+1F29", "U+0399">>>>, <<"U+1F92", <<"U+1F2A", "U+0399">>>>,
      <<"U+1F93", <<"U+1F2B", "U+0399">>>>, <<"U+1F94", <<"U+1F2C", "U+0399">>>>,
      <<"U+1F95", <<"U+1F2D", "U+0399">>>>, <<"U+1F96", <<"U+1F2E", "U+0399">>>>,
      <<"U+1F97", <<"U+1F2F", "U+0399">>>>, <<"U+1F98", <<"U+1F28", "U+0399">>>>,
      <<"U+1F99", <<"U+1F29", "U+0399">>>>, <<"U+1F9A", <<"U+1F2A", "U+0399">>>>,
      <<"U+1F9B", <<"U+1F2B", "U+0399">>>>, <<"U+1F9C", <<"U+1F2C", "U+0399">>>>,
      <<"U+1F9D", <<"U+1F2D", "U+0399">>>>, <<"U+1F9E", <<"U+1F2E", "U+0399">>>>,
      <<"U+1F9F", <<"U+1F2F", "U+0399">>>>, <<"U+1FA0", <<"U+1F68", "U+0399">>>>,
      <<"U+1FA1", <<"U+1F69", "U+0399">>>>, <<"U+1FA2", <<"U+1F6A", "U+0399">>>>,
      <<"U+1FA3", <<"U+1F6B", "U+0399">>>>, <<"U+1FA4", <<"U+1F6C", "U+0399">>>>,
      <<"U+1FA5", <<"U+1F6D", "U+0399">>>>, <<"U+1FA6", <<"U+1F6E", "U+0399">>>>,
      <<"U+1FA7", <<"U+1F6F", "U+0399">>>>, <<"U+1FA8", <<"U+1F68", "U+0399">>>>,
      <<"U+1FA9", <<"U+1F69", "U+0399">>>>, <<"U+1FAA", <<"U+1F6A", "U+0399">>>>,
      <<"U+1FAB", <<"U+1F6B", "U+0399">>>>, <<"U+1FAC", <<"U+1F6C", "U+0399">>>>,
      <<"U+1FAD", <<"U+1F6D", "U+0399">>>>, <<"U+1FAE", <<"U+1F6E", "U+0399">>>>,
      <<"U+1FAF", <<"U+1F6F", "U+0399">>>>, <<"U+1FB0", <<"U+1FB8">>>>, <<"U+1FB1", <<"U+1FB9">>>>,
      <<"U+1FB2", <<"U+1FBA", "U+0399">>>>, <<"U+1FB3", <<"U+0391", "U+0399">>>>,
      <<"U+1FB4", <<"U+0386", "U+0399">>>>, <<"U+1FB6", <<"U+0391", "U+0342">>>>,
      <<"U+1FB7", <<"U+0391", "U+0342", "U+0399">>>>, <<"U+1FBC", <<"U+0391", "U+0399">>>>,
      <<"U+1FBE", <<"U+0399">>>>, <<"U+1FC2", <<"U+1FCA", "U+0399">>>>,
      <<"U+1FC3", <<"U+0397", "U+0399">>>>, <<"U+1FC4", <<"U+0389", "U+0399">>>>,
      <<"U+1FC6", <<"U+0397", "U+0342">>>>, <<"U+1FC7", <<"U+0397", "U+0342", "U+0399">>>>,
      <<"U+1FCC", <<"U+0397", "U+0399">>>>, <<"U+1FD0", <<"U+1FD8">>>>, <<"U+1FD1", <<"U+1FD9">>>>,
      <<"U+1FD2", <<"U+0399", "U+0308", "U+0300">>>>,
      <<"U+1FD3", <<"U+0399", "U+0308", "U+0301">>>>, <<"U+1FD6", <<"U+0399", "U+0342">>>>,
      <<"U+1FD7", <<"U+0399", "U+0308", "U+0342">>>>, <<"U+1FE0", <<"U+1FE8">>>>,
      <<"U+1FE1", <<"U+1FE9">>>>, <<"U+1FE2", <<"U+03A5", "U+0308", "U+0300">>>>,
      <<"U+1FE3", <<"U+03A5", "U+0308", "U+0301">>>>, <<"U+1FE4", <<"U+03A1", "U+0313">>>>,
      <<"U+1FE5", <<"U+1FEC">>>>, <<"U+1FE6", <<"U+03A5", "U+0342">>>>,
      <<"U+1FE7", <<"U+03A5", "U+0308", "U+0342">>>>, <<"U+1FF2", <<"U+1FFA", "U+0399">>>>,
      <<"U+1FF3", <<"U+03A9", "U+0399">>>>, <<"U+1FF4", <<"U+038F", "U+0399">>>>,
      <<"U+1FF6", <<"U+03A9", "U+0342">>>>, <<"U+1FF7", <<"U+03A9", "U+0342", "U+0399">>>>,
      <<"U+1FFC", <<"U+03A9", "U+0399">>>>, <<"U+214E", <<"U+2132">>>>, <<"U+2170", <<"U+2160">>>>,
      <<"U+2171", <<"U+2161">>>>, <<"U+2172", <<"U+2162">>>>, <<"U+2173", <<"U+2163">>>>,
      <<"U+2174", <<"U+2164">>>>, <<"U+2175", <<"U+2165">>>>, <<"U+2176", <<"U+2166">>>>,
      <<"U+2177", <<"U+2167">>>>, <<"U+2178", <<"U+2168">>>>, <<"U+2179", <<"U+2169">>>>,
      <<"U+217A", <<"U+216A">>>>, <<"U+217B", <<"U+216B">>>>, <<"U+217C", <<"U+216C">>>>,
      <<"U+217D", <<"U+216D">>>>, <<"U+217E", <<"U+216E">>>>, <<"U+217F", <<"U+216F">>>>,
      <<"U+2184", <<"U+2183">>>>, <<"U+24D0", <<"U+24B6">>>>, <<"U+24D1", <<"U+24B7">>>>,
      <<"U+24D2", <<"U+24B8">>>>, <<"U+24D3", <<"U+24B9">>>>, <<"U+24D4", <<"U+24BA">>>>,
      <<"U+24D5", <<"U+24BB">>>>, <<"U+24D6", <<"U+24BC">>>>, <<"U+24D7", <<"U+24BD">>>>,
      <<"U+24D8", <<"U+24BE">>>>, <<"U+24D9", <<"U+24BF">>>>, <<"U+24DA", <<"U+24C0">>>>,
      <<"U+24DB", <<"U+24C1">>>>, <<"U+24DC", <<"U+24C2">>>>, <<"U+24DD", <<"U+24C3">>>>,
      <<"U+24DE", <<"U+24C4">>>>, <<"U+24DF", <<"U+24C5">>>>, <<"U+24E0", <<"U+24C6">>>>,
      <<"U+24E1", <<"U+24C7">>>>, <<"U+24E2", <<"U+24C8">>>>, <<"U+24E3", <<"U+24C9">>>>,
      <<"U+24E4", <<"U+24CA">>>>, <<"U+24E5", <<"U+24CB">>>>, <<"U+24E6", <<"U+24CC">>>>,
      <<"U+24E7", <<"U+24CD">>>>, <<"U+24E8", <<"U+24CE">>>>, <<"U+24E9", <<"U+24CF">>>>,
      <<"U+2C30", <<"U+2C00">>>>, <<"U+2C31", <<"U+2C01">>>>, <<"U+2C32", <<"U+2C02">>>>,
      <<"U+2C33", <<"U+2C03">>>>, <<"U+2C34", <<"U+2C04">>>>, <<"U+2C35", <<"U+2C05">>>>,
      <<"U+2C36", <<"U+2C06">>>>, <<"U+2C37", <<"U+2C07">>>>, <<"U+2C38", <<"U+2C08">>>>,
      <<"U+2C39", <<"U+2C09">>>>, <<"U+2C3A", <<"U+2C0A">>>>, <<"U+2C3B", <<"U+2C0B">>>>,
      <<"U+2C3C", <<"U+2C0C">>>>, <<"U+2C3D", <<"U+2C0D">>>>, <<"U+2C3E", <<"U+2C0E">>>>,
      <<"U+2C3F", <<"U+2C0F">>>>, <<"U+2C40", <<"U+2C10">>>>, <<"U+2C41", <<"U+2C11">>>>,
      <<"U+2C42", <<"U+2C12">>>>, <<"U+2C43", <<"U+2C13">>>>, <<"U+2C44", <<"U+2C14">>>>,
      <<"U+2C45", <<"U+2C15">>>>, <<"U+2C46", <<"U+2C16">>>>, <<"U+2C47", <<"U+2C17">>>>,
      <<"U+2C48", <<"U+2C18">>>>, <<"U+2C49", <<"U+2C19">>>>, <<"U+2C4A", <<"U+2C1A">>>>,
      <<"U+2C4B", <<"U+2C1B">>>>, <<"U+2C4C", <<"U+2C1C">>>>, <<"U+2C4D", <<"U+2C1D">>>>,
      <<"U+2C4E", <<"U+2C1E">>>>, <<"U+2C4F", <<"U+2C1F">>>>, <<"U+2C50", <<"U+2C20">>>>,
      <<"U+2C51", <<"U+2C21">>>>, <<"U+2C52", <<"U+2C22">>>>, <<"U+2C53", <<"U+2C23">>>>,
      <<"U+2C54", <<"U+2C24">>>>, <<"U+2C55", <<"U+2C25">>>>, <<"U+2C56", <<"U+2C26">>>>,
      <<"U+2C57", <<"U+2C27">>>>, <<"U+2C58", <<"U+2C28">>>>, <<"U+2C59", <<"U+2C29">>>>,
      <<"U+2C5A", <<"U+2C2A">>>>, <<"U+2C5B", <<"U+2C2B">>>>, <<"U+2C5C", <<"U+2C2C">>>>,
      <<"U+2C5D", <<"U+2C2D">>>>, <<"U+2C5E", <<"U+2C2E">>>>, <<"U+2C5F", <<"U+2C2F">>>>,
      <<"U+2C61", <<"U+2C60">>>>, <<"U+2C65", <<"U+023A">>>>, <<"U+2C66", <<"U+023E">>>>,
      <<"U+2C68", <<"U+2C67">>>>, <<"U+2C6A", <<"U+2C69">>>>, <<"U+2C6C", <<"U+2C6B">>>>,
      <<"U+2C73", <<"U+2C72">>>>, <<"U+2C76", <<"U+2C75">>>>, <<"U+2C81", <<"U+2C80">>>>,
      <<"U+2C83", <<"U+2C82">>>>, <<"U+2C85", <<"U+2C84">>>>, <<"U+2C87", <<"U+2C86">>>>,
      <<"U+2C89", <<"U+2C88">>>>, <<"U+2C8B", <<"U+2C8A">>>>, <<"U+2C8D", <<"U+2C8C">>>>,
      <<"U+2C8F", <<"U+2C8E">>>>, <<"U+2C91", <<"U+2C90">>>>, <<"U+2C93", <<"U+2C92">>>>,
      <<"U+2C95", <<"U+2C94">>>>, <<"U+2C97", <<"U+2C96">>>>, <<"U+2C99", <<"U+2C98">>>>,
      <<"U+2C9B", <<"U+2C9A">>>>, <<"U+2C9D", <<"U+2C9C">>>>, <<"U+2C9F", <<"U+2C9E">>>>,
      <<"U+2CA1", <<"U+2CA0">>>>, <<"U+2CA3", <<"U+2CA2">>>>, <<"U+2CA5", <<"U+2CA4">>>>,
      <<"U+2CA7", <<"U+2CA6">>>>, <<"U+2CA9", <<"U+2CA8">>>>, <<"U+2CAB", <<"U+2CAA">>>>,
      <<"U+2CAD", <<"U+2CAC">>>>, <<"U+2CAF", <<"U+2CAE">>>>, <<"U+2CB1", <<"U+2CB0">>>>,
      <<"U+2CB3", <<"U+2CB2">>>>, <<"U+2CB5", <<"U+2CB4">>>>, <<"U+2CB7", <<"U+2CB6">>>>,
      <<"U+2CB9", <<"U+2CB8">>>>, <<"U+2CBB", <<"U+2CBA">>>>, <<"U+2CBD", <<"U+2CBC">>>>,
      <<"U+2CBF", <<"U+2CBE">>>>, <<"U+2CC1", <<"U+2CC0">>>>, <<"U+2CC3", <<"U+2CC2">>>>,
      <<"U+2CC5", <<"U+2CC4">>>>, <<"U+2CC7", <<"U+2CC6">>>>, <<"U+2CC9", <<"U+2CC8">>>>,
      <<"U+2CCB", <<"U+2CCA">>>>, <<"U+2CCD", <<"U+2CCC">>>>, <<"U+2CCF", <<"U+2CCE">>>>,
      <<"U+2CD1", <<"U+2CD0">>>>, <<"U+2CD3", <<"U+2CD2">>>>, <<"U+2CD5", <<"U+2CD4">>>>,
      <<"U+2CD7", <<"U+2CD6">>>>, <<"U+2CD9", <<"U+2CD8">>>>, <<"U+2CDB", <<"U+2CDA">>>>,
      <<"U+2CDD", <<"U+2CDC">>>>, <<"U+2CDF", <<"U+2CDE">>>>, <<"U+2CE1", <<"U+2CE0">>>>,
      <<"U+2CE3", <<"U+2CE2">>>>, <<"U+2CEC", <<"U+2CEB">>>>, <<"U+2CEE", <<"U+2CED">>>>,
      <<"U+2CF3", <<"U+2CF2">>>>, <<"U+2D00", <<"U+10A0">>>>, <<"U+2D01", <<"U+10A1">>>>,
      <<"U+2D02", <<"U+10A2">>>>, <<"U+2D03", <<"U+10A3">>>>, <<"U+2D04", <<"U+10A4">>>>,
      <<"U+2D05", <<"U+10A5">>>>, <<"U+2D06", <<"U+10A6">>>>, <<"U+2D07", <<"U+10A7">>>>,
      <<"U+2D08", <<"U+10A8">>>>, <<"U+2D09", <<"U+10A9">>>>, <<"U+2D0A", <<"U+10AA">>>>,
      <<"U+2D0B", <<"U+10AB">>>>, <<"U+2D0C", <<"U+10AC">>>>, <<"U+2D0D", <<"U+10AD">>>>,
      <<"U+2D0E", <<"U+10AE">>>>, <<"U+2D0F", <<"U+10AF">>>>, <<"U+2D10", <<"U+10B0">>>>,
      <<"U+2D11", <<"U+10B1">>>>, <<"U+2D12", <<"U+10B2">>>>, <<"U+2D13", <<"U+10B3">>>>,
      <<"U+2D14", <<"U+10B4">>>>, <<"U+2D15", <<"U+10B5">>>>, <<"U+2D16", <<"U+10B6">>>>,
      <<"U+2D17", <<"U+10B7">>>>, <<"U+2D18", <<"U+10B8">>>>, <<"U+2D19", <<"U+10B9">>>>,
      <<"U+2D1A", <<"U+10BA">>>>, <<"U+2D1B", <<"U+10BB">>>>, <<"U+2D1C", <<"U+10BC">>>>,
      <<"U+2D1D", <<"U+10BD">>>>, <<"U+2D1E", <<"U+10BE">>>>, <<"U+2D1F", <<"U+10BF">>>>,
      <<"U+2D20", <<"U+10C0">>>>, <<"U+2D21", <<"U+10C1">>>>, <<"U+2D22", <<"U+10C2">>>>,
      <<"U+2D23", <<"U+10C3">>>>, <<"U+2D24", <<"U+10C4">>>>, <<"U+2D25", <<"U+10C5">>>>,
      <<"U+2D27", <<"U+10C7">>>>, <<"U+2D2D", <<"U+10CD">>>>, <<"U+A641", <<"U+A640">>>>,
      <<"U+A643", <<"U+A642">>>>, <<"U+A645", <<"U+A644">>>>, <<"U+A647", <<"U+A646">>>>,
      <<"U+A649", <<"U+A648">>>>, <<"U+A64B", <<"U+A64A">>>>, <<"U+A64D", <<"U+A64C">>>>,
      <<"U+A64F", <<"U+A64E">>>>, <<"U+A651", <<"U+A650">>>>, <<"U+A653", <<"U+A652">>>>,
      <<"U+A655", <<"U+A654">>>>, <<"U+A657", <<"U+A656">>>>, <<"U+A659", <<"U+A658">>>>,
      <<"U+A65B", <<"U+A65A">>>>, <<"U+A65D", <<"U+A65C">>>>, <<"U+A65F", <<"U+A65E">>>>,
      <<"U+A661", <<"U+A660">>>>, <<"U+A663", <<"U+A662">>>>, <<"U+A665", <<"U+A664">>>>,
      <<"U+A667", <<"U+A666">>>>, <<"U+A669", <<"U+A668">>>>, <<"U+A66B", <<"U+A66A">>>>,
      <<"U+A66D", <<"U+A66C">>>>, <<"U+A681", <<"U+A680">>>>, <<"U+A683", <<"U+A682">>>>,
      <<"U+A685", <<"U+A684">>>>, <<"U+A687", <<"U+A686">>>>, <<"U+A689", <<"U+A688">>>>,
      <<"U+A68B", <<"U+A68A">>>>, <<"U+A68D", <<"U+A68C">>>>, <<"U+A68F", <<"U+A68E">>>>,
      <<"U+A691", <<"U+A690">>>>, <<"U+A693", <<"U+A692">>>>, <<"U+A695", <<"U+A694">>>>,
      <<"U+A697", <<"U+A696">>>>, <<"U+A699", <<"U+A698">>>>, <<"U+A69B", <<"U+A69A">>>>,
      <<"U+A723", <<"U+A722">>>>, <<"U+A725", <<"U+A724">>>>, <<"U+A727", <<"U+A726">>>>,
      <<"U+A729", <<"U+A728">>>>, <<"U+A72B", <<"U+A72A">>>>, <<"U+A72D", <<"U+A72C">>>>,
      <<"U+A72F", <<"U+A72E">>>>, <<"U+A733", <<"U+A732">>>>, <<"U+A735", <<"U+A734">>>>,
      <<"U+A737", <<"U+A736">>>>, <<"U+A739", <<"U+A738">>>>, <<"U+A73B", <<"U+A73A">>>>,
      <<"U+A73D", <<"U+A73C">>>>, <<"U+A73F", <<"U+A73E">>>>, <<"U+A741", <<"U+A740">>>>,
      <<"U+A743", <<"U+A742">>>>, <<"U+A745", <<"U+A744">>>>, <<"U+A747", <<"U+A746">>>>,
      <<"U+A749", <<"U+A748">>>>, <<"U+A74B", <<"U+A74A">>>>, <<"U+A74D", <<"U+A74C">>>>,
      <<"U+A74F", <<"U+A74E">>>>, <<"U+A751", <<"U+A750">>>>, <<"U+A753", <<"U+A752">>>>,
      <<"U+A755", <<"U+A754">>>>, <<"U+A757", <<"U+A756">>>>, <<"U+A759", <<"U+A758">>>>,
      <<"U+A75B", <<"U+A75A">>>>, <<"U+A75D", <<"U+A75C">>>>, <<"U+A75F", <<"U+A75E">>>>,
      <<"U+A761", <<"U+A760">>>>, <<"U+A763", <<"U+A762">>>>, <<"U+A765", <<"U+A764">>>>,
      <<"U+A767", <<"U+A766">>>>, <<"U+A769", <<"U+A768">>>>, <<"U+A76B", <<"U+A76A">>>>,
      <<"U+A76D", <<"U+A76C">>>>, <<"U+A76F", <<"U+A76E">>>>, <<"U+A77A", <<"U+A779">>>>,
      <<"U+A77C", <<"U+A77B">>>>, <<"U+A77F", <<"U+A77E">>>>, <<"U+A781", <<"U+A780">>>>,
      <<"U+A783", <<"U+A782">>>>, <<"U+A785", <<"U+A784">>>>, <<"U+A787", <<"U+A786">>>>,
      <<"U+A78C", <<"U+A78B">>>>, <<"U+A791", <<"U+A790">>>>, <<"U+A793", <<"U+A792">>>>,
      <<"U+A794", <<"U+A7C4">>>>, <<"U+A797", <<"U+A796">>>>, <<"U+A799", <<"U+A798">>>>,
      <<"U+A79B", <<"U+A79A">>>>, <<"U+A79D", <<"U+A79C">>>>, <<"U+A79F", <<"U+A79E">>>>,
      <<"U+A7A1", <<"U+A7A0">>>>, <<"U+A7A3", <<"U+A7A2">>>>, <<"U+A7A5", <<"U+A7A4">>>>,
      <<"U+A7A7", <<"U+A7A6">>>>, <<"U+A7A9", <<"U+A7A8">>>>, <<"U+A7B5", <<"U+A7B4">>>>,
      <<"U+A7B7", <<"U+A7B6">>>>, <<"U+A7B9", <<"U+A7B8">>>>, <<"U+A7BB", <<"U+A7BA">>>>,
      <<"U+A7BD", <<"U+A7BC">>>>, <<"U+A7BF", <<"U+A7BE">>>>, <<"U+A7C1", <<"U+A7C0">>>>,
      <<"U+A7C3", <<"U+A7C2">>>>, <<"U+A7C8", <<"U+A7C7">>>>, <<"U+A7CA", <<"U+A7C9">>>>,
      <<"U+A7CD", <<"U+A7CC">>>>, <<"U+A7CF", <<"U+A7CE">>>>, <<"U+A7D1", <<"U+A7D0">>>>,
      <<"U+A7D3", <<"U+A7D2">>>>, <<"U+A7D5", <<"U+A7D4">>>>, <<"U+A7D7", <<"U+A7D6">>>>,
      <<"U+A7D9", <<"U+A7D8">>>>, <<"U+A7DB", <<"U+A7DA">>>>, <<"U+A7F6", <<"U+A7F5">>>>,
      <<"U+AB53", <<"U+A7B3">>>>, <<"U+AB70", <<"U+13A0">>>>, <<"U+AB71", <<"U+13A1">>>>,
      <<"U+AB72", <<"U+13A2">>>>, <<"U+AB73", <<"U+13A3">>>>, <<"U+AB74", <<"U+13A4">>>>,
      <<"U+AB75", <<"U+13A5">>>>, <<"U+AB76", <<"U+13A6">>>>, <<"U+AB77", <<"U+13A7">>>>,
      <<"U+AB78", <<"U+13A8">>>>, <<"U+AB79", <<"U+13A9">>>>, <<"U+AB7A", <<"U+13AA">>>>,
      <<"U+AB7B", <<"U+13AB">>>>, <<"U+AB7C", <<"U+13AC">>>>, <<"U+AB7D", <<"U+13AD">>>>,
      <<"U+AB7E", <<"U+13AE">>>>, <<"U+AB7F", <<"U+13AF">>>>, <<"U+AB80", <<"U+13B0">>>>,
      <<"U+AB81", <<"U+13B1">>>>, <<"U+AB82", <<"U+13B2">>>>, <<"U+AB83", <<"U+13B3">>>>,
      <<"U+AB84", <<"U+13B4">>>>, <<"U+AB85", <<"U+13B5">>>>, <<"U+AB86", <<"U+13B6">>>>,
      <<"U+AB87", <<"U+13B7">>>>, <<"U+AB88", <<"U+13B8">>>>, <<"U+AB89", <<"U+13B9">>>>,
      <<"U+AB8A", <<"U+13BA">>>>, <<"U+AB8B", <<"U+13BB">>>>, <<"U+AB8C", <<"U+13BC">>>>,
      <<"U+AB8D", <<"U+13BD">>>>, <<"U+AB8E", <<"U+13BE">>>>, <<"U+AB8F", <<"U+13BF">>>>,
      <<"U+AB90", <<"U+13C0">>>>, <<"U+AB91", <<"U+13C1">>>>, <<"U+AB92", <<"U+13C2">>>>,
      <<"U+AB93", <<"U+13C3">>>>, <<"U+AB94", <<"U+13C4">>>>, <<"U+AB95", <<"U+13C5">>>>,
      <<"U+AB96", <<"U+13C6">>>>, <<"U+AB97", <<"U+13C7">>>>, <<"U+AB98", <<"U+13C8">>>>,
      <<"U+AB99", <<"U+13C9">>>>, <<"U+AB9A", <<"U+13CA">>>>, <<"U+AB9B", <<"U+13CB">>>>,
      <<"U+AB9C", <<"U+13CC">>>>, <<"U+AB9D", <<"U+13CD">>>>, <<"U+AB9E", <<"U+13CE">>>>,
      <<"U+AB9F", <<"U+13CF">>>>, <<"U+ABA0", <<"U+13D0">>>>, <<"U+ABA1", <<"U+13D1">>>>,
      <<"U+ABA2", <<"U+13D2">>>>, <<"U+ABA3", <<"U+13D3">>>>, <<"U+ABA4", <<"U+13D4">>>>,
      <<"U+ABA5", <<"U+13D5">>>>, <<"U+ABA6", <<"U+13D6">>>>, <<"U+ABA7", <<"U+13D7">>>>,
      <<"U+ABA8", <<"U+13D8">>>>, <<"U+ABA9", <<"U+13D9">>>>, <<"U+ABAA", <<"U+13DA">>>>,
      <<"U+ABAB", <<"U+13DB">>>>, <<"U+ABAC", <<"U+13DC">>>>, <<"U+ABAD", <<"U+13DD">>>>,
      <<"U+ABAE", <<"U+13DE">>>>, <<"U+ABAF", <<"U+13DF">>>>, <<"U+ABB0", <<"U+13E0">>>>,
      <<"U+ABB1", <<"U+13E1">>>>, <<"U+ABB2", <<"U+13E2">>>>, <<"U+ABB3", <<"U+13E3">>>>,
      <<"U+ABB4", <<"U+13E4">>>>, <<"U+ABB5", <<"U+13E5">>>>, <<"U+ABB6", <<"U+13E6">>>>,
      <<"U+ABB7", <<"U+13E7">>>>, <<"U+ABB8", <<"U+13E8">>>>, <<"U+ABB9", <<"U+13E9">>>>,
      <<"U+ABBA", <<"U+13EA">>>>, <<"U+ABBB", <<"U+13EB">>>>, <<"U+ABBC", <<"U+13EC">>>>,
      <<"U+ABBD", <<"U+13ED">>>>, <<"U+ABBE", <<"U+13EE">>>>, <<"U+ABBF", <<"U+13EF">>>>,
      <<"U+FB00", <<"F", "F">>>>, <<"U+FB01", <<"F", "I">>>>, <<"U+FB02", <<"F", "L">>>>,
      <<"U+FB03", <<"F", "F", "I">>>>, <<"U+FB04", <<"F", "F", "L">>>>, <<"U+FB05", <<"S", "T">>>>,
      <<"U+FB06", <<"S", "T">>>>, <<"U+FB13", <<"U+0544", "U+0546">>>>,
      <<"U+FB14", <<"U+0544", "U+0535">>>>, <<"U+FB15", <<"U+0544", "U+053B">>>>,
      <<"U+FB16", <<"U+054E", "U+0546">>>>, <<"U+FB17", <<"U+0544", "U+053D">>>>,
      <<"U+FF41", <<"U+FF21">>>>, <<"U+FF42", <<"U+FF22">>>>, <<"U+FF43", <<"U+FF23">>>>,
      <<"U+FF44", <<"U+FF24">>>>, <<"U+FF45", <<"U+FF25">>>>, <<"U+FF46", <<"U+FF26">>>>,
      <<"U+FF47", <<"U+FF27">>>>, <<"U+FF48", <<"U+FF28">>>>, <<"U+FF49", <<"U+FF29">>>>,
      <<"U+FF4A", <<"U+FF2A">>>>, <<"U+FF4B", <<"U+FF2B">>>>, <<"U+FF4C", <<"U+FF2C">>>>,
      <<"U+FF4D", <<"U+FF2D">>>>, <<"U+FF4E", <<"U+FF2E">>>>, <<"U+FF4F", <<"U+FF2F">>>>,
      <<"U+FF50", <<"U+FF30">>>>, <<"U+FF51", <<"U+FF31">>>>, <<"U+FF52", <<"U+FF32">>>>,
      <<"U+FF53", <<"U+FF33">>>>, <<"U+FF54", <<"U+FF34">>>>, <<"U+FF55", <<"U+FF35">>>>,
      <<"U+FF56", <<"U+FF36">>>>, <<"U+FF57", <<"U+FF37">>>>, <<"U+FF58", <<"U+FF38">>>>,
      <<"U+FF59", <<"U+FF39">>>>, <<"U+FF5A", <<"U+FF3A">>>>, <<"U+10428", <<"U+10400">>>>,
      <<"U+10429", <<"U+10401">>>>, <<"U+1042A", <<"U+10402">>>>, <<"U+1042B", <<"U+10403">>>>,
      <<"U+1042C", <<"U+10404">>>>, <<"U+1042D", <<"U+10405">>>>, <<"U+1042E", <<"U+10406">>>>,
      <<"U+1042F", <<"U+10407">>>>, <<"U+10430", <<"U+10408">>>>, <<"U+10431", <<"U+10409">>>>,
      <<"U+10432", <<"U+1040A">>>>, <<"U+10433", <<"U+1040B">>>>, <<"U+10434", <<"U+1040C">>>>,
      <<"U+10435", <<"U+1040D">>>>, <<"U+10436", <<"U+1040E">>>>, <<"U+10437", <<"U+1040F">>>>,
      <<"U+10438", <<"U+10410">>>>, <<"U+10439", <<"U+10411">>>>, <<"U+1043A", <<"U+10412">>>>,
      <<"U+1043B", <<"U+10413">>>>, <<"U+1043C", <<"U+10414">>>>, <<"U+1043D", <<"U+10415">>>>,
      <<"U+1043E", <<"U+10416">>>>, <<"U+1043F", <<"U+10417">>>>, <<"U+10440", <<"U+10418">>>>,
      <<"U+10441", <<"U+10419">>>>, <<"U+10442", <<"U+1041A">>>>, <<"U+10443", <<"U+1041B">>>>,
      <<"U+10444", <<"U+1041C">>>>, <<"U+10445", <<"U+1041D">>>>, <<"U+10446", <<"U+1041E">>>>,
      <<"U+10447", <<"U+1041F">>>>, <<"U+10448", <<"U+10420">>>>, <<"U+10449", <<"U+10421">>>>,
      <<"U+1044A", <<"U+10422">>>>, <<"U+1044B", <<"U+10423">>>>, <<"U+1044C", <<"U+10424">>>>,
      <<"U+1044D", <<"U+10425">>>>, <<"U+1044E", <<"U+10426">>>>, <<"U+1044F", <<"U+10427">>>>,
      <<"U+104D8", <<"U+104B0">>>>, <<"U+104D9", <<"U+104B1">>>>, <<"U+104DA", <<"U+104B2">>>>,
      <<"U+104DB", <<"U+104B3">>>>, <<"U+104DC", <<"U+104B4">>>>, <<"U+104DD", <<"U+104B5">>>>,
      <<"U+104DE", <<"U+104B6">>>>, <<"U+104DF", <<"U+104B7">>>>, <<"U+104E0", <<"U+104B8">>>>,
      <<"U+104E1", <<"U+104B9">>>>, <<"U+104E2", <<"U+104BA">>>>, <<"U+104E3", <<"U+104BB">>>>,
      <<"U+104E4", <<"U+104BC">>>>, <<"U+104E5", <<"U+104BD">>>>, <<"U+104E6", <<"U+104BE">>>>,
      <<"U+104E7", <<"U+104BF">>>>, <<"U+104E8", <<"U+104C0">>>>, <<"U+104E9", <<"U+104C1">>>>,
      <<"U+104EA", <<"U+104C2">>>>, <<"U+104EB", <<"U+104C3">>>>, <<"U+104EC", <<"U+104C4">>>>,
      <<"U+104ED", <<"U+104C5">>>>, <<"U+104EE", <<"U+104C6">>>>, <<"U+104EF", <<"U+104C7">>>>,
      <<"U+104F0", <<"U+104C8">>>>, <<"U+104F1", <<"U+104C9">>>>, <<"U+104F2", <<"U+104CA">>>>,
      <<"U+104F3", <<"U+104CB">>>>, <<"U+104F4", <<"U+104CC">>>>, <<"U+104F5", <<"U+104CD">>>>,
      <<"U+104F6", <<"U+104CE">>>>, <<"U+104F7", <<"U+104CF">>>>, <<"U+104F8", <<"U+104D0">>>>,
      <<"U+104F9", <<"U+104D1">>>>, <<"U+104FA", <<"U+104D2">>>>, <<"U+104FB", <<"U+104D3">>>>,
      <<"U+10597", <<"U+10570">>>>, <<"U+10598", <<"U+10571">>>>, <<"U+10599", <<"U+10572">>>>,
      <<"U+1059A", <<"U+10573">>>>, <<"U+1059B", <<"U+10574">>>>, <<"U+1059C", <<"U+10575">>>>,
      <<"U+1059D", <<"U+10576">>>>, <<"U+1059E", <<"U+10577">>>>, <<"U+1059F", <<"U+10578">>>>,
      <<"U+105A0", <<"U+10579">>>>, <<"U+105A1", <<"U+1057A">>>>, <<"U+105A3", <<"U+1057C">>>>,
      <<"U+105A4", <<"U+1057D">>>>, <<"U+105A5", <<"U+1057E">>>>, <<"U+105A6", <<"U+1057F">>>>,
      <<"U+105A7", <<"U+10580">>>>, <<"U+105A8", <<"U+10581">>>>, <<"U+105A9", <<"U+10582">>>>,
      <<"U+105AA", <<"U+10583">>>>, <<"U+105AB", <<"U+10584">>>>, <<"U+105AC", <<"U+10585">>>>,
      <<"U+105AD", <<"U+10586">>>>, <<"U+105AE", <<"U+10587">>>>, <<"U+105AF", <<"U+10588">>>>,
      <<"U+105B0", <<"U+10589">>>>, <<"U+105B1", <<"U+1058A">>>>, <<"U+105B3", <<"U+1058C">>>>,
      <<"U+105B4", <<"U+1058D">>>>, <<"U+105B5", <<"U+1058E">>>>, <<"U+105B6", <<"U+1058F">>>>,
      <<"U+105B7", <<"U+10590">>>>, <<"U+105B8", <<"U+10591">>>>, <<"U+105B9", <<"U+10592">>>>,
      <<"U+105BB", <<"U+10594">>>>, <<"U+105BC", <<"U+10595">>>>, <<"U+10CC0", <<"U+10C80">>>>,
      <<"U+10CC1", <<"U+10C81">>>>, <<"U+10CC2", <<"U+10C82">>>>, <<"U+10CC3", <<"U+10C83">>>>,
      <<"U+10CC4", <<"U+10C84">>>>, <<"U+10CC5", <<"U+10C85">>>>, <<"U+10CC6", <<"U+10C86">>>>,
      <<"U+10CC7", <<"U+10C87">>>>, <<"U+10CC8", <<"U+10C88">>>>, <<"U+10CC9", <<"U+10C89">>>>,
      <<"U+10CCA", <<"U+10C8A">>>>, <<"U+10CCB", <<"U+10C8B">>>>, <<"U+10CCC", <<"U+10C8C">>>>,
      <<"U+10CCD", <<"U+10C8D">>>>, <<"U+10CCE", <<"U+10C8E">>>>, <<"U+10CCF", <<"U+10C8F">>>>,
      <<"U+10CD0", <<"U+10C90">>>>, <<"U+10CD1", <<"U+10C91">>>>, <<"U+10CD2", <<"U+10C92">>>>,
      <<"U+10CD3", <<"U+10C93">>>>, <<"U+10CD4", <<"U+10C94">>>>, <<"U+10CD5", <<"U+10C95">>>>,
      <<"U+10CD6", <<"U+10C96">>>>, <<"U+10CD7", <<"U+10C97">>>>, <<"U+10CD8", <<"U+10C98">>>>,
      <<"U+10CD9", <<"U+10C99">>>>, <<"U+10CDA", <<"U+10C9A">>>>, <<"U+10CDB", <<"U+10C9B">>>>,
      <<"U+10CDC", <<"U+10C9C">>>>, <<"U+10CDD", <<"U+10C9D">>>>, <<"U+10CDE", <<"U+10C9E">>>>,
      <<"U+10CDF", <<"U+10C9F">>>>, <<"U+10CE0", <<"U+10CA0">>>>, <<"U+10CE1", <<"U+10CA1">>>>,
      <<"U+10CE2", <<"U+10CA2">>>>, <<"U+10CE3", <<"U+10CA3">>>>, <<"U+10CE4", <<"U+10CA4">>>>,
      <<"U+10CE5", <<"U+10CA5">>>>, <<"U+10CE6", <<"U+10CA6">>>>, <<"U+10CE7", <<"U+10CA7">>>>,
      <<"U+10CE8", <<"U+10CA8">>>>, <<"U+10CE9", <<"U+10CA9">>>>, <<"U+10CEA", <<"U+10CAA">>>>,
      <<"U+10CEB", <<"U+10CAB">>>>, <<"U+10CEC", <<"U+10CAC">>>>, <<"U+10CED", <<"U+10CAD">>>>,
      <<"U+10CEE", <<"U+10CAE">>>>, <<"U+10CEF", <<"U+10CAF">>>>, <<"U+10CF0", <<"U+10CB0">>>>,
      <<"U+10CF1", <<"U+10CB1">>>>, <<"U+10CF2", <<"U+10CB2">>>>, <<"U+10D70", <<"U+10D50">>>>,
      <<"U+10D71", <<"U+10D51">>>>, <<"U+10D72", <<"U+10D52">>>>, <<"U+10D73", <<"U+10D53">>>>,
      <<"U+10D74", <<"U+10D54">>>>, <<"U+10D75", <<"U+10D55">>>>, <<"U+10D76", <<"U+10D56">>>>,
      <<"U+10D77", <<"U+10D57">>>>, <<"U+10D78", <<"U+10D58">>>>, <<"U+10D79", <<"U+10D59">>>>,
      <<"U+10D7A", <<"U+10D5A">>>>, <<"U+10D7B", <<"U+10D5B">>>>, <<"U+10D7C", <<"U+10D5C">>>>,
      <<"U+10D7D", <<"U+10D5D">>>>, <<"U+10D7E", <<"U+10D5E">>>>, <<"U+10D7F", <<"U+10D5F">>>>,
      <<"U+10D80", <<"U+10D60">>>>, <<"U+10D81", <<"U+10D61">>>>, <<"U+10D82", <<"U+10D62">>>>,
      <<"U+10D83", <<"U+10D63">>>>, <<"U+10D84", <<"U+10D64">>>>, <<"U+10D85", <<"U+10D65">>>>,
      <<"U+118C0", <<"U+118A0">>>>, <<"U+118C1", <<"U+118A1">>>>, <<"U+118C2", <<"U+118A2">>>>,
      <<"U+118C3", <<"U+118A3">>>>, <<"U+118C4", <<"U+118A4">>>>, <<"U+118C5", <<"U+118A5">>>>,
      <<"U+118C6", <<"U+118A6">>>>, <<"U+118C7", <<"U+118A7">>>>, <<"U+118C8", <<"U+118A8">>>>,
      <<"U+118C9", <<"U+118A9">>>>, <<"U+118CA", <<"U+118AA">>>>, <<"U+118CB", <<"U+118AB">>>>,
      <<"U+118CC", <<"U+118AC">>>>, <<"U+118CD", <<"U+118AD">>>>, <<"U+118CE", <<"U+118AE">>>>,
      <<"U+118CF", <<"U+118AF">>>>, <<"U+118D0", <<"U+118B0">>>>, <<"U+118D1", <<"U+118B1">>>>,
      <<"U+118D2", <<"U+118B2">>>>, <<"U+118D3", <<"U+118B3">>>>, <<"U+118D4", <<"U+118B4">>>>,
      <<"U+118D5", <<"U+118B5">>>>, <<"U+118D6", <<"U+118B6">>>>, <<"U+118D7", <<"U+118B7">>>>,
      <<"U+118D8", <<"U+118B8">>>>, <<"U+118D9", <<"U+118B9">>>>, <<"U+118DA", <<"U+118BA">>>>,
      <<"U+118DB", <<"U+118BB">>>>, <<"U+118DC", <<"U+118BC">>>>, <<"U+118DD", <<"U+118BD">>>>,
      <<"U+118DE", <<"U+118BE">>>>, <<"U+118DF", <<"U+118BF">>>>, <<"U+16E60", <<"U+16E40">>>>,
      <<"U+16E61", <<"U+16E41">>>>, <<"U+16E62", <<"U+16E42">>>>, <<"U+16E63", <<"U+16E43">>>>,
      <<"U+16E64", <<"U+16E44">>>>, <<"U+16E65", <<"U+16E45">>>>, <<"U+16E66", <<"U+16E46">>>>,
      <<"U+16E67", <<"U+16E47">>>>, <<"U+16E68", <<"U+16E48">>>>, <<"U+16E69", <<"U+16E49">>>>,
      <<"U+16E6A", <<"U+16E4A">>>>, <<"U+16E6B", <<"U+16E4B">>>>, <<"U+16E6C", <<"U+16E4C">>>>,
      <<"U+16E6D", <<"U+16E4D">>>>, <<"U+16E6E", <<"U+16E4E">>>>, <<"U+16E6F", <<"U+16E4F">>>>,
      <<"U+16E70", <<"U+16E50">>>>, <<"U+16E71", <<"U+16E51">>>>, <<"U+16E72", <<"U+16E52">>>>,
      <<"U+16E73", <<"U+16E53">>>>, <<"U+16E74", <<"U+16E54">>>>, <<"U+16E75", <<"U+16E55">>>>,
      <<"U+16E76", <<"U+16E56">>>>, <<"U+16E77", <<"U+16E57">>>>, <<"U+16E78", <<"U+16E58">>>>,
      <<"U+16E79", <<"U+16E59">>>>, <<"U+16E7A", <<"U+16E5A">>>>, <<"U+16E7B", <<"U+16E5B">>>>,
      <<"U+16E7C", <<"U+16E5C">>>>, <<"U+16E7D", <<"U+16E5D">>>>, <<"U+16E7E", <<"U+16E5E">>>>,
      <<"U+16E7F", <<"U+16E5F">>>>, <<"U+16EBB", <<"U+16EA0">>>>, <<"U+16EBC", <<"U+16EA1">>>>,
      <<"U+16EBD", <<"U+16EA2">>>>, <<"U+16EBE", <<"U+16EA3">>>>, <<"U+16EBF", <<"U+16EA4">>>>,
      <<"U+16EC0", <<"U+16EA5">>>>, <<"U+16EC1", <<"U+16EA6">>>>, <<"U+16EC2", <<"U+16EA7">>>>,
      <<"U+16EC3", <<"U+16EA8">>>>, <<"U+16EC4", <<"U+16EA9">>>>, <<"U+16EC5", <<"U+16EAA">>>>,
      <<"U+16EC6", <<"U+16EAB">>>>, <<"U+16EC7", <<"U+16EAC">>>>, <<"U+16EC8", <<"U+16EAD">>>>,
      <<"U+16EC9", <<"U+16EAE">>>>, <<"U+16ECA", <<"U+16EAF">>>>, <<"U+16ECB", <<"U+16EB0">>>>,
      <<"U+16ECC", <<"U+16EB1">>>>, <<"U+16ECD", <<"U+16EB2">>>>, <<"U+16ECE", <<"U+16EB3">>>>,
      <<"U+16ECF", <<"U+16EB4">>>>, <<"U+16ED0", <<"U+16EB5">>>>, <<"U+16ED1", <<"U+16EB6">>>>,
      <<"U+16ED2", <<"U+16EB7">>>>, <<"U+16ED3", <<"U+16EB8">>>>, <<"U+1E922", <<"U+1E900">>>>,
      <<"U+1E923", <<"U+1E901">>>>, <<"U+1E924", <<"U+1E902">>>>, <<"U+1E925", <<"U+1E903">>>>,
      <<"U+1E926", <<"U+1E904">>>>, <<"U+1E927", <<"U+1E905">>>>, <<"U+1E928", <<"U+1E906">>>>,
      <<"U+1E929", <<"U+1E907">>>>, <<"U+1E92A", <<"U+1E908">>>>, <<"U+1E92B", <<"U+1E909">>>>,
      <<"U+1E92C", <<"U+1E90A">>>>, <<"U+1E92D", <<"U+1E90B">>>>, <<"U+1E92E", <<"U+1E90C">>>>,
      <<"U+1E92F", <<"U+1E90D">>>>, <<"U+1E930", <<"U+1E90E">>>>, <<"U+1E931", <<"U+1E90F">>>>,
      <<"U+1E932", <<"U+1E910">>>>, <<"U+1E933", <<"U+1E911">>>>, <<"U+1E934", <<"U+1E912">>>>,
      <<"U+1E935", <<"U+1E913">>>>, <<"U+1E936", <<"U+1E914">>>>, <<"U+1E937", <<"U+1E915">>>>,
      <<"U+1E938", <<"U+1E916">>>>, <<"U+1E939", <<"U+1E917">>>>, <<"U+1E93A", <<"U+1E918">>>>,
      <<"U+1E93B", <<"U+1E919">>>>, <<"U+1E93C", <<"U+1E91A">>>>, <<"U+1E93D", <<"U+1E91B">>>>,
      <<"U+1E93E", <<"U+1E91C">>>>, <<"U+1E93F", <<"U+1E91D">>>>, <<"U+1E940", <<"U+1E91E">>>>,
      <<"U+1E941", <<"U+1E91F">>>>, <<"U+1E942", <<"U+1E920">>>>, <<"U+1E943", <<"U+1E921">>>>
    }

to_upper_of == [c \in {pair[1] : pair \in UPPERCASE_TABLE} |->
                    (CHOOSE pair \in UPPERCASE_TABLE : pair[1] = c)[2]]

\* char::to_uppercase: the characters a character becomes
to_upper(c) ==
    IF \E k \in 1..26 : LowerCaseLetters[k] = c
    THEN <<UpperCaseLetters[CHOOSE k \in 1..26 : LowerCaseLetters[k] = c]>>
    ELSE IF c \in DOMAIN to_upper_of THEN to_upper_of[c]
    ELSE <<c>>

\* str::to_uppercase: every character replaced by what char::to_uppercase
\* makes of it, so the text can grow
to_uppercase(str) ==
    Loop(LAMBDA s, i : s \o to_upper(str[i]), <<>>, 1, Len(str))

\* format!("{:>10}", s): right-aligned in a field of ten characters
format_right_10(str) ==
    IF Len(str) >= 10 THEN str
    ELSE [i \in 1..(10 - Len(str)) |-> " "] \o str

\* str::trim_matches(c) and str::trim
RECURSIVE trim_start_matches(_, _)
trim_start_matches(str, cs) ==
    IF Len(str) > 0 /\ Head(str) \in cs THEN trim_start_matches(Tail(str), cs) ELSE str

RECURSIVE trim_end_matches(_, _)
trim_end_matches(str, cs) ==
    IF Len(str) > 0 /\ str[Len(str)] \in cs
    THEN trim_end_matches(SubSeq(str, 1, Len(str) - 1), cs)
    ELSE str

trim_matches(str, cs) == trim_end_matches(trim_start_matches(str, cs), cs)

\* char::is_whitespace: the characters with the Unicode property White_Space;
\* one without an escape of its own is written as its code point
White_Space ==
    {"\t", "\n", "U+000B", "\f", "\r", " ", "U+0085", "U+00A0", "U+1680",
     "U+2000", "U+2001", "U+2002", "U+2003", "U+2004", "U+2005", "U+2006",
     "U+2007", "U+2008", "U+2009", "U+200A", "U+2028", "U+2029", "U+202F",
     "U+205F", "U+3000"}

\* str::trim: leading and trailing whitespace removed
trim(str) == trim_matches(str, White_Space)

\* AnyValue::String displayed: the text between double quotes
AnyValue_to_string(str) == <<"\"">> \o str \o <<"\"">>

InventoryRow(name, year, nhc_code) ==
    [name |-> name, year |-> year, nhc_code |-> nhc_code]

\* lazy().filter(col("name").eq(lit(name)).and(col("year").eq(lit(year))))
\* .collect(): the rows that pass, in their order
filter_name_and_year(rows, name, year) ==
    SelectSeq(rows, LAMBDA row : row.name = name /\ row.year = year)

StormNameYearError(variant, storm_name, year) ==
    [error |-> variant, storm_name |-> storm_name, year |-> year]

\* StormEventBuilder::get_nhc_code_from_storm_name_and_year
StormEventBuilder_get_nhc_code_from_storm_name_and_year(rows, storm_name, year) ==
    LET some_coll == filter_name_and_year(rows, format_right_10(to_uppercase(storm_name)), year)
    IN  IF Len(some_coll) > 1
        THEN Err(StormNameYearError("MultipleMatchingData", storm_name, year))
        ELSE IF Len(some_coll) < 1
        THEN Err(StormNameYearError("NoMatchingData", storm_name, year))
        ELSE Ok(trim(trim_matches(AnyValue_to_string(some_coll[1].nhc_code), {"\""})))

\* NHCDataInventory::get_nhc_code_from_storm_name_and_year
NHCDataInventory_get_nhc_code_from_storm_name_and_year(rows, storm_name, year) ==
    LET some_coll == filter_name_and_year(rows, to_uppercase(storm_name), year)
    IN  IF Len(some_coll) # 1
        THEN Err(StormNameYearError("MultipleMatchingData", storm_name, year))
        ELSE IF Len(some_coll) = 0
        THEN Err(StormNameYearError("NoMatchingData", storm_name, year))
        ELSE Ok(AnyValue_to_string(some_coll[1].nhc_code))

\* rows of storm_list.txt: the name in capitals, right-aligned in ten
\* characters, the NHC code after a blank; in one row the code stands between
\* a tab and a blank, a carriage return and a no-break space
InventoryRowInputs ==
    { InventoryRow(<<" "," "," "," "," "," "," ","I","K","E">>, 2008,
                   <<" ","A","L","0","9","2","0","0","8">>),
      InventoryRow(<<" "," "," "," "," "," "," ","I","K","E">>, 2008,
                   <<" ","E","P","9","9","2","0","0","8">>),
      InventoryRow(<<" "," "," "," "," ","S","A","N","D","Y">>, 2012,
                   <<" ","A","L","1","8","2","0","1","2">>),
      InventoryRow(<<" "," "," "," "," "," "," ","A","N","A">>, 2012,
                   <<" ","A","L","0","1","2","0","1","2">>),
      InventoryRow(<<"T","W","E","N","T","Y","-","O","N","E">>, 2008,
                   <<" ","E","P","2","1","2","0","0","8">>),
      InventoryRow(<<" "," "," "," "," ","S","A","N","D","Y">>, 2008,
                   <<"\t","A","L","1","8","2","0","0","8"," ","\r","U+00A0">>),
      InventoryRow(<<"R","E","N","U+00C9","-","M","A","R","I","E">>, 2012,
                   <<" ","A","L","1","4","2","0","1","2">>),
      InventoryRow(<<" "," "," "," "," ","W","E","I","S","S">>, 2008,
                   <<" ","A","L","1","1","2","0","0","8">>) }

RECURSIVE SeqsUpTo(_, _)
SeqsUpTo(S, n) ==
    IF n = 0 THEN { <<>> }
    ELSE SeqsUpTo(S, n - 1)
         \cup { Append(q, x) : q \in SeqsUpTo(S, n - 1), x \in S }

StormNameInputs ==
    { <<"I","k","e">>, <<"S","a","n","d","y">>, <<"A","N","A">>,
      <<"T","w","e","n","t","y","-","o","n","e">>,
      <<"R","e","n","U+00E9","-","M","a","r","i","e">>,
      <<"W","e","i","U+00DF">> }
StormYearInputs == {2008, 2012}

\* the inventory as downloaded and parsed
InitNHC ==
    /\ CCIdle /\ BCIdle /\ TFIdle /\ NoPanic
    /\ CLIIdle /\ BBIdle /\ SZIdle
    /\ inventory \in SeqsUpTo(InventoryRowInputs, MaxRows)
    /\ nhc_out = None

Lookup(implementation, storm_name, year, result) ==
    /\ nhc_out' = Some([implementation |-> implementation, storm_name |-> storm_name,
                        year |-> year, result |-> result])
    /\ UNCHANGED <<inventory, ccvars, bcvars, tfvars, panic, clivars, bbvars, szvars>>

StormEventBuilderLookup ==
    \E storm_name \in StormNameInputs, year \in StormYearInputs :
        Lookup("StormEventBuilder", storm_name, year,
               StormEventBuilder_get_nhc_code_from_storm_name_and_year(
                   inventory, storm_name, year))

NHCDataInventoryLookup ==
    \E storm_name \in StormNameInputs, year \in StormYearInputs :
        Lookup("NHCDataInventory", storm_name, year,
               NHCDataInventory_get_nhc_code_from_storm_name_and_year(
                   inventory, storm_name, year))

NextNHC == StormEventBuilderLookup \/ NHCDataInventoryLookup

SpecNHC == InitNHC /\ [][NextNHC]_vars

-----------------------------------------------------------------------------
(* The tidal factor engine as a function of its inputs                     *)

is_leap_year(y) == y % 4 = 0 /\ (y % 100 # 0 \/ y % 400 = 0)

YearInputs == {1901, 1902, 1903, 1904, 1905, 2012, 2099}
OrdinalInputs == {1, 60, 303, 365, 366}
HourInputs == {0, 12, 23}
\* run durations: none, one second, one hour, two hours, ten days, two hours
\* and a half second, and one hour back
DurationInputs ==
    {Duration(0, 0), Duration(1, 0), Duration(3600, 0), Duration(7200, 0),
     Duration(864000, 0), Duration(7200, 500000000), Duration(-3600, 0)}

\* minute and second of the start date
MinuteSecondInputs == { <<0, 0>>, <<30, 59>> }

StartDateInputs ==
    {d \in {[year |-> y, ordinal |-> o, hour |-> h,
             minute |-> ms[1], second |-> ms[2]] :
                y \in YearInputs, o \in OrdinalInputs,
                h \in HourInputs, ms \in MinuteSecondInputs} :
        d.ordinal <= (IF is_leap_year(d.year) THEN 366 ELSE 365)}

\* constituent arguments of tidefac(): the linear ones, some with a nodal
\* term, the internal key of 2N2, and names that are in no table
TidefacConstituentInputs ==
    LinearConstituents
    \cup { <<"M","2">>, <<"K","1">>, <<"M","4">>, <<"_","2","N","2">>,
           <<"X","Y","Z">>, <<"_","X","Y","Z">> }

InitTidefac ==
    /\ CCIdle
    /\ BCIdle
    /\ NoPanic
    /\ RestIdle
    /\ \E d \in StartDateInputs, r \in DurationInputs, c \in TidefacConstituentInputs :
          tf = tidefac(d, r, c)
    /\ tf_gw = None
    /\ tf_out = None

\* a method of Tidefac is called and returns or panics
Call(op, outcome) ==
    /\ panic = None
    /\ tf_out' = Some([op |-> op, value |-> outcome.value])
    /\ panic' = outcome.panic

TidalSpeciesType ==
    /\ Call("tidal_species_type", tidal_species_type(tf))
    /\ UNCHANGED <<tf, tf_gw, ccvars, bcvars, restvars>>

TidalPotentialAmplitude ==
    /\ Call("tidal_potential_amplitude", tidal_potential_amplitude(tf))
    /\ UNCHANGED <<tf, tf_gw, ccvars, bcvars, restvars>>

OrbitalFrequency ==
    /\ Call("orbital_frequency", orbital_frequency(tf))
    /\ UNCHANGED <<tf, tf_gw, ccvars, bcvars, restvars>>

NodalFactor ==
    /\ Call("nodal_factor", nodal_factor(tf))
    /\ UNCHANGED <<tf, tf_gw, ccvars, bcvars, restvars>>

HourMiddle ==
    /\ Call("hour_middle", Returned(hour_middle(tf)))
    /\ UNCHANGED <<tf, tf_gw, ccvars, bcvars, restvars>>

\* DDAY: the days from the start of 1901 to the start date
Dday ==
    /\ Call("DDAY", Returned(DDAY(tf)))
    /\ UNCHANGED <<tf, tf_gw, ccvars, bcvars, restvars>>

GetLunarNode ==
    /\ Call("get_lunar_node", Returned(get_lunar_node(tf)))
    /\ UNCHANGED <<tf, tf_gw, ccvars, bcvars, restvars>>

\* DT, DS, DP, DH, DP1: the solar hour angle and the mean longitudes
OrbitalElement ==
    /\ \E e \in { <<"DT", DT(tf)>>, <<"DS", DS(tf)>>, <<"DP", DP(tf)>>,
                  <<"DH", DH(tf)>>, <<"DP1", DP1(tf)>> } :
          Call(e[1], Returned(e[2]))
    /\ UNCHANGED <<tf, tf_gw, ccvars, bcvars, restvars>>

GreenwichFactor ==
    /\ tf_gw = None
    /\ Call("greenwich_factor", greenwich_factor_call(tf))
    /\ tf_gw' = IF tf.constituent \in LinearConstituents
                THEN Some(greenwich_factor(tf))
                ELSE tf_gw
    /\ UNCHANGED <<tf, ccvars, bcvars, restvars>>

NextTidefac ==
    \/ TidalSpeciesType \/ TidalPotentialAmplitude \/ OrbitalFrequency
    \/ NodalFactor \/ HourMiddle \/ GreenwichFactor
    \/ Dday \/ GetLunarNode \/ OrbitalElement

SpecTidefac == InitTidefac /\ [][NextTidefac]_vars

-----------------------------------------------------------------------------
(* The aggregation over three segments, as a function of the two tidal     *)
(* mappings: each segment has at most one elevation and one velocity       *)
(* config, drawn from the three constituent selections of the scenario.    *)

OrderSegments == {0, 1, 2}

OrderConstituentsInputs ==
    { from_names(<< <<"M","2">>, <<"S","2">> >>),
      from_names(<< <<"K","1">> >>),
      from_names(<< <<"M","2">> >>) }

OrderElevationInputs ==
    {[variant |-> "Tides", tides |-> TidesConfig(c, "HAMTIDE")] :
        c \in OrderConstituentsInputs}

OrderVelocityInputs ==
    {[variant |-> "TidesAndSpaceVaryingTimeSeries", tides |-> TidesConfig(c, "FES")] :
        c \in OrderConstituentsInputs}

InitOrder ==
    /\ CCIdle
    /\ TFIdle
    /\ NoPanic
    /\ RestIdle
    /\ hgrid = Some(Mesh(Cardinality(OrderSegments)))
    /\ elevation \in UNION {{IF d = {} THEN None ELSE Some(m) : m \in [d -> OrderElevationInputs]} :
                             d \in SUBSET OrderSegments}
    /\ velocity \in UNION {{IF d = {} THEN None ELSE Some(m) : m \in [d -> OrderVelocityInputs]} :
                            d \in SUBSET OrderSegments}
    /\ temperature = None
    /\ salinity = None
    /\ pc = "config"
    /\ apc_set = None
    /\ afc_set = None
    /\ out = <<>>

NextOrder == Render

SpecOrder == InitOrder /\ [][NextOrder]_vars

-----------------------------------------------------------------------------
(* Claims *)

\* C1: for every constituent with a Greenwich branch and every start date and
\* run duration, greenwich_factor() returns g with 0 <= g < 360.
C1_GreenwichInRange ==
    IsSome(tf_gw) => (0 <= Unwrap(tf_gw).w /\ Unwrap(tf_gw).w < 360)

-----------------------------------------------------------------------------
(* What the claims speak of *)

SegmentLines == SelectSeq(out, LAMBDA l : l.kind = "segment")

HasEntry(mapping, k) == IsSome(mapping) /\ k \in DOMAIN Unwrap(mapping)

Entries(mapping) == IF IsSome(mapping) THEN DOMAIN Unwrap(mapping) ELSE {}

IsTidal(c) == c.variant \in {"Tides", "TidesAndSpaceVaryingTimeSeries"}

\* the fields a config enables, none for a variant without a TidesConfig
EnabledBy(c) ==
    IF IsTidal(c) THEN {f \in Range(field_names) : c.tides.constituents[f]} ELSE {}

\* the fields the tidal configs of a mapping enable
EnabledIn(mapping) ==
    UNION {EnabledBy(Unwrap(mapping)[k]) : k \in Entries(mapping)}

PosIn(seq, x) == CHOOSE i \in 1..Len(seq) : seq[i] = x

\* C2: for every open-boundary segment and every combination of present and
\* absent mappings, get_bctypes_vec returns exactly four codes in the order
\* elevation, velocity, temperature, salinity: the config's ibtype() when the
\* variable's mapping has an entry for the segment, and 0 otherwise, also when
\* the mapping exists but has no entry for the segment.
C2_ExpectedCodes(k) ==
    << IF HasEntry(elevation, k)
       THEN ElevationConfig_ibtype(Unwrap(elevation)[k]) ELSE 0,
       IF HasEntry(velocity, k)
       THEN VelocityConfig_ibtype(Unwrap(velocity)[k]) ELSE 0,
       IF HasEntry(temperature, k)
       THEN TemperatureConfig_ibtype(Unwrap(temperature)[k]) ELSE 0,
       IF HasEntry(salinity, k)
       THEN SalinityConfig_ibtype(Unwrap(salinity)[k]) ELSE 0 >>

C2_FourCodesPerSegment ==
    pc = "rendered" =>
        \A i \in 1..Len(SegmentLines) :
            Tail(SegmentLines[i].line) = C2_ExpectedCodes(i - 1)

\* C3: the global active-forcing set has no duplicates and lists constituents
\* in first-seen order over the segments in ascending order: for segments
\* S0, S1, S2 whose tidal configs enable {M2,S2}, {K1}, {M2} the set is exactly
\* [M2, S2, K1]; the same holds for the active-potential set.
C3_Scenario(mapping) ==
    /\ IsSome(mapping)
    /\ DOMAIN Unwrap(mapping) = {0, 1, 2}
    /\ EnabledBy(Unwrap(mapping)[0]) = {<<"M","2">>, <<"S","2">>}
    /\ EnabledBy(Unwrap(mapping)[1]) = {<<"K","1">>}
    /\ EnabledBy(Unwrap(mapping)[2]) = {<<"M","2">>}

C3_M2_S2_K1 == << <<"M","2">>, <<"S","2">>, <<"K","1">> >>

C3_FirstSeenOrder ==
    pc = "rendered" =>
        /\ NoDup(Unwrap(afc_set))
        /\ NoDup(Unwrap(apc_set))
        /\ (\/ C3_Scenario(elevation) /\ velocity = None
            \/ C3_Scenario(velocity) /\ elevation = None)
           => /\ Unwrap(afc_set) = C3_M2_S2_K1
              /\ Unwrap(apc_set) = C3_M2_S2_K1

C3_Witness ==
    /\ pc = "rendered"
    /\ C3_Scenario(elevation)
    /\ velocity = None
    /\ Unwrap(afc_set) = C3_M2_S2_K1

\* C4 as claimed: insertion follows the segments first, then the variables:
\* every constituent first enabled by segment i (by its elevation or its
\* velocity config) precedes every constituent first enabled by a segment j > i.
C4_FirstSegment(f) ==
    Min({k \in Entries(elevation) : f \in EnabledBy(Unwrap(elevation)[k])}
        \cup {k \in Entries(velocity) : f \in EnabledBy(Unwrap(velocity)[k])})

C4_SegmentsFirst ==
    pc = "rendered" =>
        \A a, b \in Range(Unwrap(afc_set)) :
            C4_FirstSegment(a) < C4_FirstSegment(b)
            => PosIn(Unwrap(afc_set), a) < PosIn(Unwrap(afc_set), b)

\* C4 as amended: insertion follows the variables first (the whole elevation
\* mapping, then the whole velocity mapping), then the segments in ascending
\* order within a mapping, then the field order: a constituent some elevation
\* config enables precedes one only velocity configs enable, and within one
\* mapping a constituent first enabled by segment i precedes one first enabled
\* by a segment j > i.
C4_Variable(f) == IF f \in EnabledIn(elevation) THEN 0 ELSE 1

C4_SegmentInVariable(f) ==
    IF f \in EnabledIn(elevation)
    THEN Min({k \in Entries(elevation) : f \in EnabledBy(Unwrap(elevation)[k])})
    ELSE Min({k \in Entries(velocity) : f \in EnabledBy(Unwrap(velocity)[k])})

C4_Before(a, b) ==
    \/ C4_Variable(a) < C4_Variable(b)
    \/ /\ C4_Variable(a) = C4_Variable(b)
       /\ C4_SegmentInVariable(a) < C4_SegmentInVariable(b)
    \/ /\ C4_Variable(a) = C4_Variable(b)
       /\ C4_SegmentInVariable(a) = C4_SegmentInVariable(b)
       /\ PosIn(field_names, a) < PosIn(field_names, b)

C4_InOrder(set) ==
    \A a, b \in Range(set) : C4_Before(a, b) => PosIn(set, a) < PosIn(set, b)

C4_VariablesFirst ==
    pc = "rendered" => C4_InOrder(Unwrap(afc_set)) /\ C4_InOrder(Unwrap(apc_set))

C4_Witness ==
    /\ pc = "rendered"
    /\ \E a, b \in Range(Unwrap(afc_set)) :
          /\ a \notin EnabledIn(elevation)
          /\ HasEntry(velocity, 0) /\ a \in EnabledBy(Unwrap(velocity)[0])
          /\ Entries(elevation) = {1} /\ b \in EnabledBy(Unwrap(elevation)[1])
          /\ PosIn(Unwrap(afc_set), b) < PosIn(Unwrap(afc_set), a)

\* C5: for each of the 2^15 flag assignments, get_active_forcing_constituents()
\* is exactly the fields whose flag is true, in the fixed field order
\* Q1,O1,P1,K1,N2,M2,S2,K2,Mm,Mf,M4,MN4,MS4,2N2,S1 whatever the order the flags
\* were set in, and get_active_potential_constituents() is the subsequence of
\* those that are in the static major list.
C5_FieldOrder ==
    << <<"Q","1">>, <<"O","1">>, <<"P","1">>, <<"K","1">>,
       <<"N","2">>, <<"M","2">>, <<"S","2">>, <<"K","2">>,
       <<"M","m">>, <<"M","f">>, <<"M","4">>, <<"M","N","4">>,
       <<"M","S","4">>, <<"_","2","N","2">>, <<"S","1">> >>

C5_MajorList ==
    { <<"Q","1">>, <<"O","1">>, <<"P","1">>, <<"K","1">>,
      <<"N","2">>, <<"M","2">>, <<"S","2">>, <<"K","2">> }

C5_ActiveInFieldOrder ==
    cc_op = "get" =>
        /\ Unwrap(cc_afc) = SelectSeq(C5_FieldOrder, LAMBDA f : cc[f])
        /\ Unwrap(cc_apc) = SelectSeq(Unwrap(cc_afc), LAMBDA f : f \in C5_MajorList)

C5_Witness ==
    /\ cc_op = "get"
    /\ cc[<<"_","2","N","2">>] /\ cc[<<"M","m">>] /\ cc[<<"K","2">>] /\ cc[<<"Q","1">>]
    /\ Unwrap(cc_apc) = << <<"Q","1">>, <<"K","2">> >>
    /\ Unwrap(cc_afc) = << <<"Q","1">>, <<"K","2">>, <<"M","m">>, <<"_","2","N","2">> >>

\* C6: the two global sets are the union of the per-config sets over exactly
\* the elevation and velocity entries whose variant is Tides or
\* TidesAndSpaceVaryingTimeSeries; every other variant and every temperature
\* or salinity config contributes nothing.
C6_UnionOfTidalConfigs ==
    pc = "rendered" =>
        /\ Range(Unwrap(afc_set)) = EnabledIn(elevation) \cup EnabledIn(velocity)
        /\ Range(Unwrap(apc_set)) =
              {f \in EnabledIn(elevation) \cup EnabledIn(velocity) :
                  f \in Range(MAJOR_CONSTITUENTS)}

C6_Witness ==
    /\ pc = "rendered"
    /\ Entries(temperature) # {}
    /\ \E k \in Entries(velocity) :
          Unwrap(velocity)[k].variant = "TidesAndSpaceVaryingTimeSeries"
    /\ Unwrap(afc_set) # <<>>
    /\ Range(Unwrap(afc_set)) = EnabledIn(velocity)

\* C7: each config variant maps to a fixed boundary-type code: for elevation
\* and velocity UniformTimeSeries=1, ConstantValue=2, Tides=3,
\* SpaceVaryingTimeSeries=4, TidesAndSpaceVaryingTimeSeries=5,
\* EqualToZero/Flather=-1; for temperature and salinity
\* RelaxToUniformTimeSeries=1, RelaxToConstantValue=2,
\* RelaxToInitialConditions=3, RelaxToSpaceVaryingTimeSeries=4; ibtype() is
\* never 0, so a 0 in the output always means that there is no config.
C7_Code ==
    ("UniformTimeSeries" :> 1) @@ ("ConstantValue" :> 2) @@ ("Tides" :> 3)
    @@ ("SpaceVaryingTimeSeries" :> 4) @@ ("TidesAndSpaceVaryingTimeSeries" :> 5)
    @@ ("EqualToZero" :> -1) @@ ("Flather" :> -1)
    @@ ("RelaxToUniformTimeSeries" :> 1) @@ ("RelaxToConstantValue" :> 2)
    @@ ("RelaxToInitialConditions" :> 3) @@ ("RelaxToSpaceVaryingTimeSeries" :> 4)

\* the codes the table gives for the entries segment k has, in the order
\* elevation, velocity, temperature, salinity
C7_CodesOfEntries(k) ==
    (IF HasEntry(elevation, k) THEN <<C7_Code[Unwrap(elevation)[k].variant]>> ELSE <<>>)
    \o (IF HasEntry(velocity, k) THEN <<C7_Code[Unwrap(velocity)[k].variant]>> ELSE <<>>)
    \o (IF HasEntry(temperature, k) THEN <<C7_Code[Unwrap(temperature)[k].variant]>> ELSE <<>>)
    \o (IF HasEntry(salinity, k) THEN <<C7_Code[Unwrap(salinity)[k].variant]>> ELSE <<>>)

C7_AbsentMappings ==
    Cardinality({m \in {"e", "v", "t", "s"} :
        \/ m = "e" /\ elevation = None
        \/ m = "v" /\ velocity = None
        \/ m = "t" /\ temperature = None
        \/ m = "s" /\ salinity = None})

C7_FixedCodes ==
    /\ \A k \in Entries(elevation) :
          ElevationConfig_ibtype(Unwrap(elevation)[k]) = C7_Code[Unwrap(elevation)[k].variant]
    /\ \A k \in Entries(velocity) :
          VelocityConfig_ibtype(Unwrap(velocity)[k]) = C7_Code[Unwrap(velocity)[k].variant]
    /\ \A k \in Entries(temperature) :
          TemperatureConfig_ibtype(Unwrap(temperature)[k]) = C7_Code[Unwrap(temperature)[k].variant]
    /\ \A k \in Entries(salinity) :
          SalinityConfig_ibtype(Unwrap(salinity)[k]) = C7_Code[Unwrap(salinity)[k].variant]
    /\ pc = "rendered" =>
          \A i \in 1..Len(SegmentLines) :
              LET codes == Tail(SegmentLines[i].line)
              IN  /\ SelectSeq(codes, LAMBDA c : c # 0) = C7_CodesOfEntries(i - 1)
                  /\ Len(SelectSeq(codes, LAMBDA c : c = 0)) = C7_AbsentMappings

C7_Witness ==
    /\ pc = "rendered"
    /\ HasEntry(elevation, 0)
    /\ Unwrap(elevation)[0].variant = "Tides"
    /\ HasEntry(temperature, 0)
    /\ Unwrap(temperature)[0].variant = "RelaxToSpaceVaryingTimeSeries"
    /\ Tail(SegmentLines[1].line) = <<3, 0, 4, 0>>

\* the external name of a field: the field name without its leading underscore
ExternalName(f) == IF f[1] = "_" THEN Tail(f) ELSE f

FlagsAre(cfg, names) ==
    \A f \in Range(field_names) : cfg[f] = (ExternalName(f) \in names)

\* C8: all(), major() and minor() return configs in which exactly the names
\* of the major and minor lists, of the major list, and of the minor list are
\* true and every other flag is false; default() has every flag false.
C8_Constructors ==
    /\ cc_op = "all" =>
          FlagsAre(cc, Range(MAJOR_CONSTITUENTS) \cup Range(MINOR_CONSTITUENTS))
    /\ cc_op = "major" => FlagsAre(cc, Range(MAJOR_CONSTITUENTS))
    /\ cc_op = "minor" => FlagsAre(cc, Range(MINOR_CONSTITUENTS))
    /\ cc_op = "default" => FlagsAre(cc, {})

C8_Witness ==
    /\ cc_op = "minor"
    /\ cc[<<"_","2","N","2">>]
    /\ ~cc[<<"M","2">>]

\* C9: the major and minor lists are disjoint and together cover exactly the
\* field set (2N2 standing for the field _2N2), so that
\* all().get_active_forcing_constituents() has as many members as the union of
\* the two lists, which is the number of fields.
C9_ListsPartitionFields ==
    /\ Range(MAJOR_CONSTITUENTS) \cap Range(MINOR_CONSTITUENTS) = {}
    /\ {ExternalName(f) : f \in Range(field_names)}
          = Range(MAJOR_CONSTITUENTS) \cup Range(MINOR_CONSTITUENTS)
    /\ Cardinality(Range(field_names)) = Len(field_names)
    /\ (cc_op = "get" /\ cc = ConstituentsConfig_all) =>
          /\ Len(Unwrap(cc_afc))
                = Cardinality(Range(MAJOR_CONSTITUENTS) \cup Range(MINOR_CONSTITUENTS))
          /\ Len(Unwrap(cc_afc)) = Len(field_names)

C9_Witness ==
    /\ cc_op = "get"
    /\ cc = ConstituentsConfig_all
    /\ Len(Unwrap(cc_afc)) = Len(MAJOR_CONSTITUENTS) + Len(MINOR_CONSTITUENTS)

\* C10: for the major-only config the active-potential set equals the
\* active-forcing set, members and order; the two coincide for every config in
\* which no minor flag is true.
C10_NoMinorFlag ==
    \A f \in Range(field_names) :
        ExternalName(f) \in Range(MINOR_CONSTITUENTS) => ~cc[f]

C10_MajorOnlyCoincide ==
    (cc_op = "get" /\ C10_NoMinorFlag) => Unwrap(cc_apc) = Unwrap(cc_afc)

C10_Witness ==
    /\ cc_op = "get"
    /\ cc = ConstituentsConfig_major
    /\ Unwrap(cc_apc) = MAJOR_CONSTITUENTS
    /\ Unwrap(cc_afc) = MAJOR_CONSTITUENTS

\* the constituent blocks of the output, and what the run wrote at all
PotentialBlocks == SelectSeq(out, LAMBDA l : l.kind = "potential")
ForcingBlocks == SelectSeq(out, LAMBDA l : l.kind = "forcing")

\* C11: every member of an active-potential set has an entry in the species
\* type, potential amplitude and orbital frequency tables and an arm in
\* nodal_factor and greenwich_factor, and every member of an active-forcing set
\* has an orbital frequency entry and the two arms, the leading underscore
\* stripped; this holds for every field a flag assignment can enable, so a
\* rendering never panics on a constituent.
C11_ForcingCovered(c) ==
    /\ strip_prefix(c) \in DOMAIN ORBITAL_FREQUENCIES
    /\ strip_prefix(c) \in DOMAIN nodal_factor_arms
    /\ strip_prefix(c) \in greenwich_factor_arms

C11_PotentialCovered(c) ==
    /\ strip_prefix(c) \in DOMAIN TIDAL_SPECIES_TYPE_MAP
    /\ strip_prefix(c) \in DOMAIN TIDAL_POTENTIAL_AMPLITUDES_MAP
    /\ C11_ForcingCovered(c)

C11_ActiveSetsCovered ==
    /\ \A f \in Range(field_names) :
          /\ C11_ForcingCovered(f)
          /\ is_major(f) => C11_PotentialCovered(f)
    /\ IsSome(apc_set) => \A c \in Range(Unwrap(apc_set)) : C11_PotentialCovered(c)
    /\ IsSome(afc_set) => \A c \in Range(Unwrap(afc_set)) : C11_ForcingCovered(c)
    /\ IsSome(panic) => Unwrap(panic) = unwrap_panic_message

C11_Witness ==
    /\ pc = "rendered"
    /\ <<"_","2","N","2">> \in Range(Unwrap(afc_set))
    /\ <<"K","1">> \in Range(Unwrap(apc_set))
    /\ Len(PotentialBlocks) = 1
    /\ Len(ForcingBlocks) = 2

\* C12: set_by_name with a name that is no field (after the digit-leading
\* remap) panics with a message that names the offending field, and changes no
\* flag.
C12_UnknownFieldNamed ==
    [][(cc_op' = "panic" /\ cc_op # "panic") =>
          /\ cc' = cc
          /\ \E n \in SetByNameInputs :
                /\ set_by_name_panics(n)
                /\ n \in Range(Unwrap(panic').args)]_vars

\* C13: a digit-leading name round-trips: set_by_name("2N2", true) sets the
\* field _2N2, the derived sets carry "_2N2", tidefac() and the serializer
\* strip the underscore, so the lookups and the name line use "2N2" and no
\* emitted name starts with an underscore.
C13_2N2 == <<"2","N","2">>
C13_Field == <<"_","2","N","2">>

C13_BlockOf(c, blk) ==
    /\ blk.name = strip_prefix(c)
    /\ blk.name[1] # "_"
    /\ c = C13_Field =>
          /\ blk.name = C13_2N2
          /\ blk.values[1] = ORBITAL_FREQUENCIES[C13_2N2]
          /\ blk.values[2] = nodal_factor_arms[C13_2N2]
          /\ blk.values[3] = [arm |-> C13_2N2]

C13_DigitNameRoundTrip ==
    /\ set_by_name(ConstituentsConfig_default, C13_2N2, TRUE)
          = [ConstituentsConfig_default EXCEPT ![C13_Field] = TRUE]
    /\ tidefac(CliStartDate, Duration(0, 0), C13_Field).constituent = C13_2N2
    /\ pc = "rendered" =>
          /\ C13_2N2 \notin Range(Unwrap(afc_set))
          /\ (C13_Field \in EnabledIn(elevation) \cup EnabledIn(velocity))
                => C13_Field \in Range(Unwrap(afc_set))
          /\ Len(ForcingBlocks) = Len(Unwrap(afc_set))
          /\ Len(PotentialBlocks) = Len(Unwrap(apc_set))
          /\ \A i \in 1..Len(ForcingBlocks) :
                C13_BlockOf(Unwrap(afc_set)[i], ForcingBlocks[i])
          /\ \A i \in 1..Len(PotentialBlocks) :
                /\ PotentialBlocks[i].name = strip_prefix(Unwrap(apc_set)[i])
                /\ PotentialBlocks[i].name[1] # "_"

C13_Witness ==
    /\ pc = "rendered"
    /\ C13_Field \in Range(Unwrap(afc_set))
    /\ \E i \in 1..Len(ForcingBlocks) : ForcingBlocks[i].name = C13_2N2

\* C14: tidal_species_type, tidal_potential_amplitude and orbital_frequency
\* called for a constituent that is not in the table never return a value:
\* they panic with a message that names the constituent and the table; for a
\* constituent of the table they return its entry.
C14_Lookup(op, table, words) ==
    (IsSome(tf_out) /\ Unwrap(tf_out).op = op) =>
        IF tf.constituent \in DOMAIN table
        THEN Unwrap(tf_out).value = Some(table[tf.constituent]) /\ panic = None
        ELSE /\ Unwrap(tf_out).value = None
             /\ IsSome(panic)
             /\ Unwrap(panic).args = <<tf.constituent>>
             /\ words \subseteq Range(Unwrap(panic).text)

C14_MissingConstituentPanics ==
    /\ C14_Lookup("tidal_species_type", TIDAL_SPECIES_TYPE_MAP, {"tidal_species_type"})
    /\ C14_Lookup("tidal_potential_amplitude", TIDAL_POTENTIAL_AMPLITUDES_MAP,
                  {"tidal_potential_amplitude"})
    /\ C14_Lookup("orbital_frequency", ORBITAL_FREQUENCIES, {"orbital", "frequency"})

C14_Witness ==
    /\ IsSome(tf_out)
    /\ Unwrap(tf_out).op = "tidal_species_type"
    /\ tf.constituent = <<"M","4">>
    /\ Unwrap(tf_out).value = None
    /\ IsSome(panic)

\* C15: nodal_factor and greenwich_factor called for a constituent without an
\* arm (such as "XYZ") never return a value: they panic with a message that
\* names the constituent as unhandled.
C15_Unhandled(op, arms, word) ==
    (IsSome(tf_out) /\ Unwrap(tf_out).op = op) =>
        IF tf.constituent \in arms
        THEN IsSome(Unwrap(tf_out).value) /\ panic = None
        ELSE /\ Unwrap(tf_out).value = None
             /\ IsSome(panic)
             /\ Unwrap(panic).args = <<tf.constituent>>
             /\ word \in Range(Unwrap(panic).text)

C15_UnhandledConstituentPanics ==
    /\ C15_Unhandled("nodal_factor", DOMAIN nodal_factor_arms, "Unhandled")
    /\ C15_Unhandled("greenwich_factor", greenwich_factor_arms, "Unrecognized")
    /\ (IsSome(tf_gw) => tf.constituent \in greenwich_factor_arms)

C15_Witness ==
    /\ IsSome(tf_out)
    /\ Unwrap(tf_out).op = "nodal_factor"
    /\ tf.constituent = <<"X","Y","Z">>
    /\ Unwrap(tf_out).value = None
    /\ IsSome(panic)

\* C16: a rendering writes, in this order: the start date line; the potential
\* count line with the count and the cut-off depth; one block per member of
\* the active-potential set in set order, each with species type, potential
\* amplitude, orbital frequency, nodal factor and Greenwich argument; the
\* forcing count line; one block per member of the active-forcing set in set
\* order, each with orbital frequency, nodal factor and Greenwich argument
\* only; then the segment count line.
C16_PotentialFields ==
    <<"tidal_species_type", "tidal_potential_amplitude", "orbital_frequency",
      "nodal_factor", "greenwich_factor">>

C16_ForcingFields == <<"orbital_frequency", "nodal_factor", "greenwich_factor">>

C16_RenderingOrder ==
    pc = "rendered" =>
        LET apc == Unwrap(apc_set)
            afc == Unwrap(afc_set)
            np == Len(apc)
            nf == Len(afc)
        IN  /\ Len(out) >= np + nf + 4
            /\ out[1].kind = "start_date"
            /\ out[1].value = CliStartDate
            /\ out[2] = [kind |-> "n_potential", n |-> np, tip_dp |-> CliCutoffDepth]
            /\ \A i \in 1..np :
                  /\ out[2 + i].kind = "potential"
                  /\ out[2 + i].name = strip_prefix(apc[i])
                  /\ out[2 + i].fields = C16_PotentialFields
                  /\ Len(out[2 + i].values) = 5
            /\ out[3 + np] = [kind |-> "n_forcing", n |-> nf]
            /\ \A i \in 1..nf :
                  /\ out[3 + np + i].kind = "forcing"
                  /\ out[3 + np + i].name = strip_prefix(afc[i])
                  /\ out[3 + np + i].fields = C16_ForcingFields
                  /\ Len(out[3 + np + i].values) = 3
            /\ out[4 + np + nf].kind = "n_segments"

C16_Witness ==
    /\ pc = "rendered"
    /\ Len(Unwrap(apc_set)) = 3
    /\ Len(Unwrap(afc_set)) = 4
    /\ out[6].kind = "n_forcing"
    /\ out[11].kind = "n_segments"

\* C17: the segment section has one entry per open boundary segment of the
\* mesh in the mesh's order, whichever segments have configs: the count line
\* holds the number of segments, and the k-th entry starts with the node count
\* of the k-th segment, followed by the codes of the configs under key k-1 and
\* then by the body text of the boundaries.
C17_CodesUnderKey(k) ==
    (IF HasEntry(elevation, k)
     THEN <<ElevationConfig_ibtype(Unwrap(elevation)[k])>> ELSE <<>>)
    \o (IF HasEntry(velocity, k)
        THEN <<VelocityConfig_ibtype(Unwrap(velocity)[k])>> ELSE <<>>)
    \o (IF HasEntry(temperature, k)
        THEN <<TemperatureConfig_ibtype(Unwrap(temperature)[k])>> ELSE <<>>)
    \o (IF HasEntry(salinity, k)
        THEN <<SalinityConfig_ibtype(Unwrap(salinity)[k])>> ELSE <<>>)

C17_SegmentSection ==
    pc = "rendered" =>
        LET nodes_ids == Unwrap(hgrid)
            n == Len(nodes_ids)
            first == Len(out) - 2 * n
        IN  /\ first >= 1
            /\ out[first] = [kind |-> "n_segments", n |-> n]
            /\ Len(SegmentLines) = n
            /\ \A k \in 1..n :
                  /\ out[first + 2 * k - 1].kind = "segment"
                  /\ Head(out[first + 2 * k - 1].line) = nodes_ids[k]
                  /\ SelectSeq(Tail(out[first + 2 * k - 1].line), LAMBDA c : c # 0)
                        = C17_CodesUnderKey(k - 1)
                  /\ out[first + 2 * k].kind = "boundary_string"

C17_Witness ==
    /\ pc = "rendered"
    /\ Len(Unwrap(hgrid)) = 2
    /\ Entries(elevation) = {1}
    /\ Entries(velocity) = {1}
    /\ temperature = None
    /\ salinity = None
    /\ SegmentLines[1].line = <<2, 0, 0>>
    /\ Head(SegmentLines[2].line) = 3
    /\ Len(SegmentLines[2].line) = 5

C19_NoPartialOutput ==
    pc = "panicked" => out = <<>>

\* C20: a run_duration that is not a whole number of seconds is rejected
\* before any output; hour_middle never drops the fraction of a second.
C20_FractionalDurationRejected ==
    (/\ IsSome(tf_out)
     /\ Unwrap(tf_out).op = "hour_middle"
     /\ tf.run_duration.nanos # 0)
    => Unwrap(tf_out).value = None /\ IsSome(panic)

\* C21: for every start date of 1901..2099, DDAY is the day of the year minus
\* one plus the number of leap years from 1901 up to, and without, the start
\* year, which is day-of-year + floor((year - 1901) / 4) - 1.
C21_LeapYearsBefore(year) ==
    Cardinality({y \in 1901..(year - 1) : is_leap_year(y)})

C21_DDAYCountsLeapYears ==
    (/\ IsSome(tf_out)
     /\ Unwrap(tf_out).op = "DDAY"
     /\ tf.start_date.year \in 1901..2099)
    => /\ Unwrap(tf_out).value
             = Some(tf.start_date.ordinal - 1
                    + C21_LeapYearsBefore(tf.start_date.year))
       /\ Unwrap(tf_out).value
             = Some(tf.start_date.ordinal
                    + ((tf.start_date.year - 1901) \div 4) - 1)

\* C22: hour_middle is the start hour plus the run duration in seconds over
\* 7200; the lunar node and the lunar perigee are taken at hour_middle, while
\* DT, the lunar and solar mean longitudes and the solar perigee are taken at
\* the start hour, whatever the run duration; the minute and the second of
\* the start date change no computed value.
C22_OtherDurations ==
    {[tf EXCEPT !.run_duration = r] : r \in DurationInputs}

C22_OtherMinutes ==
    {[tf EXCEPT !.start_date.minute = ms[1], !.start_date.second = ms[2]] :
        ms \in MinuteSecondInputs}

C22_Value(op, t) ==
    CASE op = "hour_middle" -> hour_middle(t)
      [] op = "get_lunar_node" -> get_lunar_node(t)
      [] op = "DP" -> DP(t)
      [] op = "DT" -> DT(t)
      [] op = "DS" -> DS(t)
      [] op = "DH" -> DH(t)
      [] op = "DP1" -> DP1(t)
      [] op = "DDAY" -> DDAY(t)

C22_AtHourMiddle == {"get_lunar_node", "DP"}
C22_AtStartHour == {"DT", "DS", "DH", "DP1"}

C22_HourMiddleUse ==
    IsSome(tf_out) =>
       LET op == Unwrap(tf_out).op
           value == Unwrap(tf_out).value
       IN  /\ op = "hour_middle" =>
                /\ IsSome(value)
                /\ dmul(TwoHours, Unwrap(value))
                      = dint(TwoHours * tf.start_date.hour
                             + num_seconds(tf.run_duration))
           /\ op \in C22_AtHourMiddle =>
                \A t \in C22_OtherDurations :
                    (value = Some(C22_Value(op, t)))
                        <=> (hour_middle(t) = hour_middle(tf))
           /\ op \in C22_AtStartHour =>
                \A t \in C22_OtherDurations : value = Some(C22_Value(op, t))
           /\ op \in C22_AtHourMiddle \cup C22_AtStartHour
                        \cup {"hour_middle", "DDAY"} =>
                \A t \in C22_OtherMinutes : value = Some(C22_Value(op, t))

C22_Witness ==
    /\ IsSome(tf_out)
    /\ Unwrap(tf_out).op = "get_lunar_node"
    /\ tf.run_duration = Duration(864000, 0)
    /\ tf.start_date.hour = 12
    /\ tf.start_date.minute = 30
    /\ Unwrap(tf_out).value # Some(get_lunar_node([tf EXCEPT !.run_duration = Duration(0, 0)]))

\* C23: species_type, potential_amplitude and orbital_frequency are table
\* lookups: for every constituent of the table the result is the table value
\* whatever the start date and the run duration, the species type is 0, 1 or
\* 2, and for M2 the three values are 2, 0.242334 and 0.0001405189025086.
C23_M2 == <<"M","2">>

C23_TableValue(op, table) ==
    /\ (/\ IsSome(tf_out)
        /\ Unwrap(tf_out).op = op
        /\ tf.constituent \in DOMAIN table)
       => Unwrap(tf_out).value = Some(table[tf.constituent])
    /\ \A c \in DOMAIN table :
          LET t == tidefac(tf.start_date, tf.run_duration, c)
              r == CASE op = "tidal_species_type" -> tidal_species_type(t)
                     [] op = "tidal_potential_amplitude" -> tidal_potential_amplitude(t)
                     [] op = "orbital_frequency" -> orbital_frequency(t)
          IN  r = Returned(table[c])

C23_TableLookups ==
    /\ C23_TableValue("tidal_species_type", TIDAL_SPECIES_TYPE_MAP)
    /\ C23_TableValue("tidal_potential_amplitude", TIDAL_POTENTIAL_AMPLITUDES_MAP)
    /\ C23_TableValue("orbital_frequency", ORBITAL_FREQUENCIES)
    /\ (IsSome(tf_out) /\ Unwrap(tf_out).op = "tidal_species_type"
            /\ IsSome(Unwrap(tf_out).value))
        => Unwrap(Unwrap(tf_out).value) \in {0, 1, 2}
    /\ (IsSome(tf_out) /\ tf.constituent = C23_M2) =>
          LET op == Unwrap(tf_out).op
              value == Unwrap(tf_out).value
          IN  /\ op = "tidal_species_type" => value = Some(2)
              /\ op = "tidal_potential_amplitude" => value = Some("0.242334")
              /\ op = "orbital_frequency" => value = Some("0.0001405189025086")

C23_Witness ==
    /\ IsSome(tf_out)
    /\ Unwrap(tf_out).op = "tidal_potential_amplitude"
    /\ tf.constituent = <<"S","2">>
    /\ tf.start_date.year = 2099
    /\ tf.run_duration = Duration(864000, 0)
    /\ Unwrap(tf_out).value = Some("0.112841")

\* C24: boundary numbers are 1-based on the command line and 0-based in the
\* maps: the argument <variable>-<k> stores its config under key k - 1, the
\* tidal-db, all, major, minor and constituent flags read for it are those
\* named with the same k, and the k-th segment line carries its code.
C24_Name(variable, k, suffix) == <<variable, "-">> \o to_string(k) \o suffix

C24_Given(variable, k) == matches[C24_Name(variable, k, <<>>)] # None

C24_Mapping(variable) == IF variable = "elevation" THEN elevation ELSE velocity

C24_Flag(variable, k, f) ==
    IF matches[C24_Name(variable, k, <<"-", "all">>)] = Some(TRUE)
    THEN ConstituentsConfig_all[f]
    ELSE IF matches[C24_Name(variable, k, <<"-", "major">>)] = Some(TRUE)
    THEN ConstituentsConfig_major[f]
    ELSE IF matches[C24_Name(variable, k, <<"-", "minor">>)] = Some(TRUE)
    THEN ConstituentsConfig_minor[f]
    ELSE matches[C24_Name(variable, k, <<"-">> \o f)] = Some(TRUE)

C24_OneBasedNames ==
    pc \in {"parsed", "config", "rendered", "rendered_again"} =>
        LET n == Len(Unwrap(hgrid))
        IN  /\ \A variable \in {"elevation", "velocity"} :
                  /\ Entries(C24_Mapping(variable)) \subseteq 0..(n - 1)
                  /\ \A k \in 1..n :
                        /\ C24_Given(variable, k) <=> HasEntry(C24_Mapping(variable), k - 1)
                        /\ C24_Given(variable, k) =>
                              LET cfg == Unwrap(C24_Mapping(variable))[k - 1]
                                  db == matches[C24_Name(variable, k, <<"-", "tidal-db">>)]
                              IN  /\ cfg.tides.database
                                        = get_tidal_db_possible_values_map[Unwrap(db)]
                                  /\ \A f \in Range(field_names) :
                                        cfg.tides.constituents[f] = C24_Flag(variable, k, f)
            /\ pc \in {"rendered", "rendered_again"} =>
                  \A k \in 1..n :
                      SelectSeq(Tail(SegmentLines[k].line), LAMBDA c : c # 0)
                        = (IF C24_Given("elevation", k) THEN <<5>> ELSE <<>>)
                          \o (IF C24_Given("velocity", k) THEN <<5>> ELSE <<>>)

C24_Witness ==
    /\ pc = "rendered"
    /\ Len(Unwrap(hgrid)) = 2
    /\ ~C24_Given("elevation", 1)
    /\ matches[C24_Name("elevation", 2, <<"-", "major">>)] = Some(TRUE)
    /\ Entries(elevation) = {1}
    /\ Unwrap(elevation)[1].tides.constituents = ConstituentsConfig_major
    /\ Unwrap(elevation)[1].tides.database = "FES"
    /\ matches[C24_Name("velocity", 1, <<"-", "_", "2", "N", "2">>)] = Some(TRUE)
    /\ Entries(velocity) = {0}
    /\ Unwrap(velocity)[0].tides.constituents[<<"_", "2", "N", "2">>]
    /\ ~Unwrap(velocity)[0].tides.constituents[<<"M", "2">>]
    /\ SegmentLines[2].line = <<3, 5, 0, 0>>

\* C25: build() returns Ok exactly when the four fields are set and the
\* cut-off depth is >= 0; otherwise the error names the first unset field in
\* declaration order, or is InvalidTidalPotentialCutoffDepth when all are
\* set and the depth is negative; the built value carries the builder's
\* current values, and build() leaves the builder as it was.
C25_Fields ==
    <<"start_date", "run_duration", "tidal_potential_cutoff_depth",
      "boundary_forcing_config">>

C25_Unset == {i \in 1..4 : builder[C25_Fields[i]] = None}

C25_DepthAtLeastZero ==
    LET depth == Unwrap(builder.tidal_potential_cutoff_depth)
    IN  ~depth.nan /\ depth.val >= 0

C25_Result ==
    IsSome(built) =>
        LET result == Unwrap(built)
        IN  /\ IsSome(result.ok) <=> (C25_Unset = {} /\ C25_DepthAtLeastZero)
            /\ C25_Unset # {} =>
                  result = Err(UninitializedFieldError(C25_Fields[Min(C25_Unset)]))
            /\ (C25_Unset = {} /\ ~C25_DepthAtLeastZero) =>
                  result = Err(InvalidTidalPotentialCutoffDepth)
            /\ IsSome(result.ok) =>
                  \A i \in 1..4 :
                      Unwrap(result.ok)[C25_Fields[i]] = Unwrap(builder[C25_Fields[i]])

C25_BuildContract ==
    /\ [](C25_Result)
    /\ [][BuilderBuild => builder' = builder]_vars

\* C26: the active-potential set is the subsequence of the active-forcing
\* set made of its major constituents: every potential constituent is a
\* forcing constituent, and two potential constituents have the same relative
\* order in both sets.
C26_PotentialWithinForcing ==
    (IsSome(apc_set) /\ IsSome(afc_set)) =>
        LET apc == Unwrap(apc_set)
            afc == Unwrap(afc_set)
        IN  /\ apc = SelectSeq(afc, LAMBDA c : c \in Range(MAJOR_CONSTITUENTS))
            /\ Range(apc) \subseteq Range(afc)
            /\ \A a, b \in Range(apc) :
                  (PosIn(apc, a) < PosIn(apc, b)) <=> (PosIn(afc, a) < PosIn(afc, b))

C26_Witness ==
    /\ pc = "rendered"
    /\ IsSome(apc_set)
    /\ IsSome(afc_set)
    /\ Range(Unwrap(afc_set))
          = {<<"K","1">>, <<"_","2","N","2">>, <<"M","2">>, <<"S","2">>}
    /\ Range(Unwrap(apc_set)) = {<<"K","1">>, <<"M","2">>, <<"S","2">>}
    /\ PosIn(Unwrap(afc_set), <<"K","1">>) < PosIn(Unwrap(afc_set), <<"_","2","N","2">>)
    /\ PosIn(Unwrap(afc_set), <<"_","2","N","2">>) < PosIn(Unwrap(afc_set), <<"M","2">>)
    /\ PosIn(Unwrap(apc_set), <<"K","1">>) < PosIn(Unwrap(apc_set), <<"M","2">>)
    /\ IsSome(velocity)

\* C27: every constituent of a rendered potential or forcing block is enabled
\* by the elevation or velocity config of a segment of the mesh (key below the
\* number of open boundary segments) whose code for that variable is 3 or 5;
\* an entry keyed outside the mesh contributes nothing to the output.
C27_MeshKeys == 0..(Len(Unwrap(hgrid)) - 1)

C27_EnabledInMesh ==
    UNION {EnabledBy(Unwrap(elevation)[k]) :
             k \in {x \in Entries(elevation) \cap C27_MeshKeys :
                       ElevationConfig_ibtype(Unwrap(elevation)[x]) \in {3, 5}}}
    \cup UNION {EnabledBy(Unwrap(velocity)[k]) :
             k \in {x \in Entries(velocity) \cap C27_MeshKeys :
                       VelocityConfig_ibtype(Unwrap(velocity)[x]) \in {3, 5}}}

C27_HeadersFromMeshSegments ==
    pc = "rendered" =>
        \A i \in 1..Len(out) :
            out[i].kind \in {"potential", "forcing"} =>
                out[i].name \in {strip_prefix(f) : f \in C27_EnabledInMesh}

\* C28: set_by_name with a known name changes that field and no other, so a
\* flag has the value of the last call that named it and false if no call
\* did, in any call order; the names 2N2 and _2N2 address the same field.
C28_FieldOf(n) == IF n = <<"2","N","2">> THEN <<"_","2","N","2">> ELSE n

C28_KnownNames == Range(field_names) \cup {<<"2","N","2">>}

C28_OnlyThatField ==
    /\ cc_op = "default" => \A f \in Range(field_names) : cc[f] = FALSE
    /\ \A n \in C28_KnownNames, v \in BOOLEAN :
          set_by_name(cc, n, v) = [cc EXCEPT ![C28_FieldOf(n)] = v]
    /\ \A v \in BOOLEAN :
          set_by_name(cc, <<"2","N","2">>, v) = set_by_name(cc, <<"_","2","N","2">>, v)
    /\ \A v, w \in BOOLEAN :
          /\ set_by_name(set_by_name(cc, <<"M","2">>, v), <<"2","N","2">>, w)
                = set_by_name(set_by_name(cc, <<"2","N","2">>, w), <<"M","2">>, v)
          /\ set_by_name(set_by_name(cc, <<"2","N","2">>, v), <<"_","2","N","2">>, w)
                = set_by_name(cc, <<"2","N","2">>, w)

C28_Witness ==
    /\ cc_op = "set_by_name"
    /\ cc = [ConstituentsConfig_default EXCEPT ![<<"_","2","N","2">>] = TRUE,
                                                ![<<"M","2">>] = TRUE]

\* C29: SZBuilder::build returns Ok only if theta_b is in [0, 1],
\* theta_f >= 0, critical_depth >= 5 and the z-levels, when given, are all
\* negative, strictly increasing and start at or below the deepest mesh
\* point; every violation, an empty z-level list included, is returned as
\* the corresponding SZBuilderError and build never panics.
C29_InRange(x, lo, hi) == ~x.nan /\ lo <= x.val /\ x.val <= hi

C29_AtLeast(x, lo) == ~x.nan /\ lo <= x.val

C29_Deepest(depths) ==
    CHOOSE d \in Range(depths) : \A e \in Range(depths) : d.val <= e.val

C29_Violations(self) ==
    (IF C29_InRange(Unwrap(self.theta_b), 0, 1) THEN {} ELSE {"InvalidThetaB"})
    \cup (IF C29_AtLeast(Unwrap(self.theta_f), 0) THEN {} ELSE {"InvalidThetaF"})
    \cup (IF C29_AtLeast(Unwrap(self.critical_depth), 5)
          THEN {} ELSE {"InvalidCriticalDepth"})
    \cup (IF self.zlevels = None THEN {}
          ELSE LET z == Unwrap(self.zlevels)
               IN  (IF /\ Len(z) > 0
                       /\ \A i \in 1..Len(z) : ~z[i].nan /\ z[i].val < 0
                       /\ \A i \in 1..(Len(z) - 1) :
                             ~z[i + 1].nan /\ z[i].val < z[i + 1].val
                    THEN {} ELSE {"InvalidZLevels"})
                   \cup (IF Len(z) > 0 /\ ~z[1].nan
                            /\ z[1].val <= C29_Deepest(Unwrap(self.hgrid)).val
                         THEN {} ELSE {"InvalidZLevelsValues", "InvalidZLevels"}))

C29_AllSet ==
    \A f \in {"hgrid", "slevels", "theta_b", "theta_f", "critical_depth"} :
        sz[f] # None

C29_Reported ==
    /\ panic = None
    /\ (sz_out # None /\ C29_AllSet) =>
          IF C29_Violations(sz) = {}
          THEN Unwrap(sz_out).ok # None
          ELSE /\ Unwrap(sz_out).err # None
               /\ Unwrap(Unwrap(sz_out).err).error \in C29_Violations(sz)
    /\ (sz_out # None /\ Unwrap(sz_out).ok # None) => C29_AllSet

\* C30: in both implementations get_nhc_code_from_storm_name_and_year
\* returns NoMatchingData when no inventory row has the storm name and
\* year, MultipleMatchingData when more than one has, and the NHC code of
\* the row when exactly one has.
C30_Matching(storm_name, year) ==
    { i \in 1..Len(inventory) :
        /\ trim(inventory[i].name) = to_uppercase(storm_name)
        /\ inventory[i].year = year }

C30_Expected(storm_name, year) ==
    LET rows == C30_Matching(storm_name, year)
    IN  IF rows = {}
        THEN Err(StormNameYearError("NoMatchingData", storm_name, year))
        ELSE IF Cardinality(rows) > 1
        THEN Err(StormNameYearError("MultipleMatchingData", storm_name, year))
        ELSE Ok(trim(inventory[CHOOSE i \in rows : TRUE].nhc_code))

C30_LookupByCount ==
    nhc_out # None =>
        Unwrap(nhc_out).result
            = C30_Expected(Unwrap(nhc_out).storm_name, Unwrap(nhc_out).year)

====
